---- MODULE Spec2Model ----
(***************************************************************************)
(* Model of the multi-account session and order-fanout engine of           *)
(* motilal_trader.py: the process-wide session registry (mofsl_sessions),  *)
(* the capital cache (client_capital_map), the account store, the          *)
(* background login task, account registration and deletion, and the       *)
(* thread-per-target place-order fanout.                                   *)
(*                                                                         *)
(* Scheduling.  Handlers declared "async def" (clients_add,                *)
(* clients_delete, place_order) run on the single event loop and contain   *)
(* no await, so they exclude one another; the variable loop says which one *)
(* holds the event loop.  login_client is a plain function registered as   *)
(* a background task, so it runs on a thread-pool thread, concurrently     *)
(* with the event loop and with the worker threads of a fanout.            *)
(*                                                                         *)
(* Strings are sequences of one-character strings, so that strip and       *)
(* _safe are computed character by character.                              *)
(***************************************************************************)
EXTENDS Integers, Sequences, FiniteSets, TLC

VARIABLES
    store,                \* account store: path -> document ({} when absent)
    mofsl_sessions,       \* [user key -> [display name -> account id]]
    client_capital_map,   \* [user key -> [account id -> capital]]
    tasks,                \* background login tasks
    loop,                 \* which async handler holds the event loop
    del,                  \* the clients_delete request in progress
    po,                   \* the place_order request in progress
    position_meta,        \* [<<user key, display name, symbol>> -> metadata]
    fetch,                \* the get_positions requests in progress (threads)
    cl,                   \* the close_position / convert_position request in progress
    groups,               \* group store: path -> document
    copy_setups,          \* copy-setup store: path -> document
    clock,                \* datetime.utcnow(), in whole seconds
    order_mapping,        \* copy-trading runtime map (setup -> master order -> child -> order)
    calc                  \* the last call of a pure helper: its arguments and result

vars == <<store, mofsl_sessions, client_capital_map, tasks, loop, del, po,
          position_meta, fetch, cl, groups, copy_setups, clock, order_mapping, calc>>

\* the state beside the accounts, their sessions and the order fanout
ext == <<position_meta, fetch, cl, groups, copy_setups, clock, order_mapping, calc>>

-----------------------------------------------------------------------------
(* Bounds *)

\* Number of registrations (each schedules one background login).
MaxLogins == 2

-----------------------------------------------------------------------------
(* Strings *)

\* the characters of the model for which str.isalnum() holds
AlnumChars == {"a", "b", "g", "h", "n", "s", "t", "u", "A", "B", "N", "S", "0", "1", "2", "5"}

Whitespace == {" "}

RECURSIVE lstrip(_)
lstrip(s) ==
    IF s = <<>> THEN <<>>
    ELSE IF Head(s) \in Whitespace THEN lstrip(Tail(s)) ELSE s

RECURSIVE rstrip(_)
rstrip(s) ==
    IF s = <<>> THEN <<>>
    ELSE IF s[Len(s)] \in Whitespace THEN rstrip(SubSeq(s, 1, Len(s) - 1)) ELSE s

strip(s) == rstrip(lstrip(s))

\* str.replace(" ", "_")
RECURSIVE replace_space(_)
replace_space(s) ==
    IF s = <<>> THEN <<>>
    ELSE <<IF Head(s) = " " THEN "_" ELSE Head(s)>> \o replace_space(Tail(s))

RECURSIVE keep_safe_chars(_)
keep_safe_chars(s) ==
    IF s = <<>> THEN <<>>
    ELSE (IF Head(s) \in AlnumChars \cup {"_", "-"} THEN <<Head(s)>> ELSE <<>>)
         \o keep_safe_chars(Tail(s))

\* _safe: strip, spaces to underscores, then drop every character that is
\* neither alphanumeric nor "_" nor "-".
_safe(s) == keep_safe_chars(replace_space(strip(s)))

\* require_user: the stripped header value; an empty one is refused (400).
require_user(user_id) == strip(user_id)

UserAccepted(user_id) == require_user(user_id) # <<>>

-----------------------------------------------------------------------------
(* Inputs *)

\* X-User-Id header values sent by clients.
UserIds == { <<"u", "1">>, <<"a", " ", "b">> }

\* Broker account ids (payload "userid").
Accts == { <<"A">>, <<"B">> }

\* Display names a payload may carry; NoName: the payload has none.
NoName == <<>>
NameInputs == { <<"n", "1">>, NoName }

\* A capital value of a payload: a JSON number, or a non-numeric text.
Num(n) == <<"num", n>>
NonNumeric == <<"str", 0>>
CapitalInputs == { Num(100), Num(200), NonNumeric }
BaseAmountInputs == { Num(300) }

\* Keys of the process-wide maps: what the handlers use (require_user) and
\* what login_client uses (_safe of it).
UserKeys == { require_user(u) : u \in UserIds } \cup { _safe(require_user(u)) : u \in UserIds }

DisplayNames == (NameInputs \ {NoName}) \cup Accts

-----------------------------------------------------------------------------
(* Documents: functions from field names to values; {} is the empty one *)

EmptyDoc == [f \in {} |-> FALSE]

Has(doc, f) == f \in DOMAIN doc

\* dict.update
Update(stored, doc) ==
    [f \in DOMAIN stored \cup DOMAIN doc |-> IF f \in DOMAIN doc THEN doc[f] ELSE stored[f]]

Set(doc, f, v) == Update(doc, f :> v)

\* Python truthiness of a capital value: 0 and "" are falsy.
Truthy(v) == v # Num(0)

\* doc.get("capital", 0) or doc.get("base_amount", 0) or 0
CapitalOf(doc) ==
    IF Has(doc, "capital") /\ Truthy(doc["capital"]) THEN doc["capital"]
    ELSE IF Has(doc, "base_amount") /\ Truthy(doc["base_amount"]) THEN doc["base_amount"]
    ELSE Num(0)

\* float(x) succeeds on numbers only
IsNumeric(v) == v[1] = "num"

\* users/<_safe(uid)>/clients/motilal/<_safe(client_id)>.json
ClientPath(uid, client_id) == <<_safe(uid), _safe(client_id)>>

Paths == { ClientPath(k, a) : k \in UserKeys, a \in Accts }

-----------------------------------------------------------------------------
(* Session registry and capital cache *)

NoSession == <<>>
NoCapital == <<"none", 0>>

\* _sessions_for_user(user_id): the user's bucket
_sessions_for_user(user_id) == mofsl_sessions[user_id]

\* _capitals_for_user(user_id)
_capitals_for_user(user_id) == client_capital_map[user_id]

\* names bound in a bucket = len(dict)
LiveNames(bucket) == { n \in DOMAIN bucket : bucket[n] # NoSession }

\* [nm for nm, (_s, u) in sessions.items() if u == cid]
NamesOf(bucket, cid) == { n \in DOMAIN bucket : bucket[n] = cid }

-----------------------------------------------------------------------------
(* Background login tasks *)

TaskIds == 1..MaxLogins

NoTask == [pc |-> "none", uid |-> <<>>, doc |-> EmptyDoc, status |-> FALSE, stored |-> EmptyDoc]

\* _pick(client_doc.get("userid"), client_doc.get("client_id"))
ClientIdOf(doc) == IF Has(doc, "userid") THEN doc["userid"] ELSE <<>>

\* (client_doc.get("name") or ... or client_id or "").strip()
NameOf(doc) ==
    IF Has(doc, "name") /\ doc["name"] # <<>> THEN strip(doc["name"]) ELSE strip(ClientIdOf(doc))

\* A task that has ended ("done": returned, "raised": an exception left
\* login_client); only whose login it was is kept of it.
Finished(task, how) ==
    [pc |-> how, uid |-> task.uid, doc |-> ("userid" :> ClientIdOf(task.doc)),
     status |-> task.status, stored |-> EmptyDoc]

FreeTask == IF \E t \in TaskIds : tasks[t].pc = "none"
            THEN CHOOSE t \in TaskIds : tasks[t].pc = "none" /\ \A s \in TaskIds : s < t => tasks[s].pc # "none"
            ELSE 0

\* POST /clients/add: writes the whole document, schedules login_client(uid, doc)
clients_add(user_id, client_id, name, money) ==
    /\ loop = "idle"
    /\ UserAccepted(user_id)
    /\ FreeTask # 0
    /\ LET uid == require_user(user_id)
           display_name == IF name # NoName THEN strip(name) ELSE strip(client_id)
           doc == Update(Update(money, "userid" :> client_id),
                         ("name" :> display_name) @@ ("session_active" :> FALSE))
       IN /\ store' = [store EXCEPT ![ClientPath(uid, client_id)] = doc]
          /\ tasks' = [tasks EXCEPT ![FreeTask] =
                          [pc |-> "start", uid |-> uid, doc |-> doc, status |-> FALSE, stored |-> EmptyDoc]]
    /\ UNCHANGED <<mofsl_sessions, client_capital_map, loop, del, po>>
    /\ UNCHANGED ext

\* login_client, lines 418-431: uid = _safe(user_id); the capital is cached
\* with float(capital) outside any try, so a non-numeric capital raises out
\* of the task.
LoginStart(t) ==
    /\ tasks[t].pc = "start"
    /\ LET uid == _safe(tasks[t].uid)
           client_id == ClientIdOf(tasks[t].doc)
           capital == CapitalOf(tasks[t].doc)
       IN IF client_id = <<>>
          THEN /\ tasks' = [tasks EXCEPT ![t] = Finished(tasks[t], "done")]
               /\ UNCHANGED client_capital_map
          ELSE IF ~IsNumeric(capital)
          THEN /\ tasks' = [tasks EXCEPT ![t] = Finished(tasks[t], "raised")]
               /\ UNCHANGED client_capital_map
          ELSE /\ client_capital_map' = [client_capital_map EXCEPT ![uid][client_id] = capital]
               /\ tasks' = [tasks EXCEPT ![t].pc = "auth"]
    /\ UNCHANGED <<store, mofsl_sessions, loop, del, po>>
    /\ UNCHANGED ext

LoginOutcomes == {"SUCCESS", "FAILED", "THROWS"}

\* LoginAuth as it would be if the session were filed under the account id
LoginAuthKeyedByAccount(t, outcome) ==
    /\ tasks[t].pc = "auth"
    /\ LET uid == _safe(tasks[t].uid)
           client_id == ClientIdOf(tasks[t].doc)
       IN IF outcome = "SUCCESS"
          THEN /\ mofsl_sessions' = [mofsl_sessions EXCEPT ![uid][client_id] = client_id]
               /\ tasks' = [tasks EXCEPT ![t].pc = "read", ![t].status = TRUE]
          ELSE /\ tasks' = [tasks EXCEPT ![t].pc = "read", ![t].status = FALSE]
               /\ UNCHANGED mofsl_sessions
    /\ UNCHANGED <<store, client_capital_map, loop, del, po>>
    /\ UNCHANGED ext

\* lines 433-445: the broker login; only a SUCCESS status installs the session
LoginAuth(t, outcome) ==
    /\ tasks[t].pc = "auth"
    /\ LET uid == _safe(tasks[t].uid)
           client_id == ClientIdOf(tasks[t].doc)
           name == NameOf(tasks[t].doc)
       IN IF outcome = "SUCCESS"
          THEN /\ mofsl_sessions' = [mofsl_sessions EXCEPT ![uid][name] = client_id]
               /\ tasks' = [tasks EXCEPT ![t].pc = "read", ![t].status = TRUE]
          ELSE /\ tasks' = [tasks EXCEPT ![t].pc = "read", ![t].status = FALSE]
               /\ UNCHANGED mofsl_sessions
    /\ UNCHANGED <<store, client_capital_map, loop, del, po>>
    /\ UNCHANGED ext

\* lines 448-450: stored = _store_read_json(rel_path) or {}; a store error is
\* caught by the except of line 455 and ends the task
LoginRead(t, ok) ==
    /\ tasks[t].pc = "read"
    /\ LET uid == _safe(tasks[t].uid)
           client_id == ClientIdOf(tasks[t].doc)
       IN IF ok
          THEN tasks' = [tasks EXCEPT ![t].pc = "write", ![t].stored = store[ClientPath(uid, client_id)]]
          ELSE tasks' = [tasks EXCEPT ![t] = Finished(tasks[t], "done")]
    /\ UNCHANGED <<store, mofsl_sessions, client_capital_map, loop, del, po>>
    /\ UNCHANGED ext

\* lines 451-454: stored.update(client_doc); session_active; write
LoginWrite(t, ok) ==
    /\ tasks[t].pc = "write"
    /\ LET uid == _safe(tasks[t].uid)
           client_id == ClientIdOf(tasks[t].doc)
           merged == Set(Update(tasks[t].stored, tasks[t].doc), "session_active", tasks[t].status)
       IN /\ store' = IF ok THEN [store EXCEPT ![ClientPath(uid, client_id)] = merged] ELSE store
          /\ tasks' = [tasks EXCEPT ![t] = Finished(tasks[t], "done")]
    /\ UNCHANGED <<mofsl_sessions, client_capital_map, loop, del, po>>
    /\ UNCHANGED ext

-----------------------------------------------------------------------------
(* POST /clients/delete (one item) *)

NoDelete == [pc |-> "none", uid |-> <<>>, cid |-> <<>>, n0 |-> 0]

\* lines 638-657: the request is accepted and the comprehension of line 658
\* starts iterating the user's bucket
DeleteBegin(user_id, cid) ==
    /\ loop = "idle"
    /\ UserAccepted(user_id)
    /\ LET uid == require_user(user_id)
       IN del' = [pc |-> "scan", uid |-> uid, cid |-> cid,
                  n0 |-> Cardinality(LiveNames(_sessions_for_user(uid)))]
    /\ loop' = "clients_delete"
    /\ UNCHANGED <<store, mofsl_sessions, client_capital_map, tasks, po>>
    /\ UNCHANGED ext

\* lines 658-660: the iteration ends (RuntimeError when a login thread
\* changed the size of the bucket meanwhile: the request fails with it) and
\* the matching names are popped
DeleteDrop ==
    /\ loop = "clients_delete"
    /\ del.pc = "scan"
    /\ LET bucket == _sessions_for_user(del.uid)
       IN IF Cardinality(LiveNames(bucket)) # del.n0
          THEN /\ del' = NoDelete
               /\ loop' = "idle"
               /\ UNCHANGED mofsl_sessions
          ELSE /\ mofsl_sessions' = [mofsl_sessions EXCEPT ![del.uid] =
                      [n \in DOMAIN bucket |-> IF bucket[n] = del.cid THEN NoSession ELSE bucket[n]]]
               /\ del' = [del EXCEPT !.pc = "store"]
               /\ UNCHANGED loop
    /\ UNCHANGED <<store, client_capital_map, tasks, po>>
    /\ UNCHANGED ext

\* lines 663-670: the stored document is removed when there is one
DeleteStore ==
    /\ loop = "clients_delete"
    /\ del.pc = "store"
    /\ store' = [store EXCEPT ![ClientPath(del.uid, del.cid)] = EmptyDoc]
    /\ del' = NoDelete
    /\ loop' = "idle"
    /\ UNCHANGED <<mofsl_sessions, client_capital_map, tasks, po>>
    /\ UNCHANGED ext

-----------------------------------------------------------------------------
(* Symbol strings "EXCHANGE|SYMBOL|TOKEN" *)

\* str.split("|"): the fields between the pipes (always at least one)
RECURSIVE split(_)
split(s) ==
    IF s = <<>> THEN << <<>> >>
    ELSE IF Head(s) = "|" THEN << <<>> >> \o split(Tail(s))
    ELSE LET rest == split(Tail(s))
         IN << <<Head(s)>> \o Head(rest) >> \o Tail(rest)

Digits == {"0", "1", "2", "5"}

DigitValue(c) == IF c = "0" THEN 0 ELSE IF c = "1" THEN 1 ELSE IF c = "2" THEN 2 ELSE 5

\* the number a string of digits denotes ("" denotes 0)
RECURSIVE DigitsValue(_)
DigitsValue(s) ==
    IF s = <<>> THEN 0 ELSE 10 * DigitsValue(SubSeq(s, 1, Len(s) - 1)) + DigitValue(s[Len(s)])

Dots(s) == { i \in DOMAIN s : s[i] = "." }

\* the text float() reads as a decimal number, sign removed: digits with at
\* most one point among them and at least one digit
IsDecimal(s) ==
    /\ \A i \in DOMAIN s : s[i] \in Digits \cup {"."}
    /\ Cardinality(Dots(s)) <= 1
    /\ \E i \in DOMAIN s : s[i] \in Digits

\* the digits before the point
IntegerPart(s) ==
    IF Dots(s) = {} THEN s ELSE SubSeq(s, 1, (CHOOSE i \in Dots(s) : TRUE) - 1)

Unsigned(s) == IF s # <<>> /\ Head(s) \in {"-", "+"} THEN Tail(s) ELSE s

\* the HTTPException(400) a refused token raises, and an accepted token
Invalid == <<"HTTP", 400>>
Token(n) == <<"int", n>>

\* _safe_int_token: int(float(str(x).strip())); the fraction is cut off.
\* An empty or unreadable text is refused (400).
_safe_int_token(x) ==
    LET s == strip(x)
        u == Unsigned(s)
    IN IF s = <<>> \/ ~IsDecimal(u) THEN Invalid
       ELSE IF Head(s) = "-" THEN Token(-DigitsValue(IntegerPart(u)))
       ELSE Token(DigitsValue(IntegerPart(u)))

Rejected == [status |-> 400, exchange |-> <<>>, stock_symbol |-> <<>>, symboltoken |-> 0]

\* place_order, lines 870-875: exactly three fields, then the token
ParseSymbol(symbol) ==
    LET fields == split(symbol)
    IN IF Len(fields) # 3 THEN Rejected
       ELSE IF _safe_int_token(fields[3]) = Invalid THEN Rejected
       ELSE [status |-> 200, exchange |-> fields[1], stock_symbol |-> fields[2],
             symboltoken |-> _safe_int_token(fields[3])[2]]

\* calc: the arguments of a helper call and, once it has returned, its result
NoCall == [op |-> "none", arg |-> <<>>, done |-> FALSE, out |-> <<>>]

Call(op, arg) == [op |-> op, arg |-> arg, done |-> FALSE, out |-> <<>>]

\* the call ParseSymbol(calc.arg) returns
ParseSymbolCall ==
    /\ calc.op = "ParseSymbol"
    /\ ~calc.done
    /\ calc' = [calc EXCEPT !.done = TRUE, !.out = ParseSymbol(calc.arg)]
    /\ UNCHANGED <<store, mofsl_sessions, client_capital_map, tasks, loop, del, po>>
    /\ UNCHANGED <<position_meta, fetch, cl, groups, copy_setups, clock, order_mapping>>

-----------------------------------------------------------------------------
(* Capital lookup and automatic quantity *)

\* the capital of a stored document as _get_client_capital reads it: float()
\* of it, 0.0 when that raises
DocCapital(doc) == IF IsNumeric(CapitalOf(doc)) THEN CapitalOf(doc) ELSE Num(0)

\* LookupCapital as it would be if the stored document were read every time
LookupCapitalFromStore(caps, docs, uid, client_id) ==
    DocCapital(docs[ClientPath(uid, client_id)])

\* _get_client_capital: the cached value when there is one, else the stored
\* document's
LookupCapital(caps, docs, uid, client_id) ==
    IF caps[uid][client_id] # NoCapital THEN caps[uid][client_id]
    ELSE DocCapital(docs[ClientPath(uid, client_id)])

\* ... which it then caches (line 401), for every account looked up
CapsAfterLookup(caps, docs, uid, looked_up) ==
    [caps EXCEPT ![uid] = [a \in DOMAIN caps[uid] |->
        IF a \in looked_up THEN LookupCapital(caps, docs, uid, a) ELSE caps[uid][a]]]

\* a call _get_client_capital(uid, client_id), lines 392-402: the value it
\* returns, and the cache entry it leaves
_get_client_capital(user_id, client_id) ==
    /\ loop = "idle"
    /\ UserAccepted(user_id)
    /\ LET uid == require_user(user_id)
       IN /\ calc' = [op |-> "_get_client_capital", arg |-> <<uid, client_id>>, done |-> TRUE,
                      out |-> LookupCapital(client_capital_map, store, uid, client_id)]
          /\ client_capital_map' = CapsAfterLookup(client_capital_map, store, uid, {client_id})
    /\ UNCHANGED <<store, mofsl_sessions, tasks, loop, del, po>>
    /\ UNCHANGED <<position_meta, fetch, cl, groups, copy_setups, clock, order_mapping>>

-----------------------------------------------------------------------------
(* GET /get_clients *)

\* lines 595-600: the account ids of the bucket's sessions
RuntimeLoggedIn(bucket) == { bucket[n] : n \in LiveNames(bucket) }

\* what the loop of lines 596-597 may have collected: every id, or, when a
\* login thread is about to change the bucket and the iteration raises
\* (swallowed by the except of line 599), only some of them
ScanResults(uid) ==
    IF \E t \in TaskIds : tasks[t].pc = "auth" /\ _safe(tasks[t].uid) = uid
    THEN SUBSET RuntimeLoggedIn(_sessions_for_user(uid))
    ELSE { RuntimeLoggedIn(_sessions_for_user(uid)) }

\* lines 612-617: the live session first, else the persisted flag
SessionStatus(d, runtime_logged_in) ==
    IF ClientIdOf(d) \in runtime_logged_in THEN "Logged in"
    ELSE IF Has(d, "session_active") /\ d["session_active"] THEN "Logged in"
    ELSE "pending"

\* lines 588-630: one entry per stored document of the user
get_clients(user_id, runtime_logged_in) ==
    /\ UserAccepted(user_id)
    /\ LET uid == require_user(user_id)
           listed == { a \in Accts : store[ClientPath(uid, a)] # EmptyDoc }
       IN /\ runtime_logged_in \in ScanResults(uid)
          /\ calc' = [op |-> "get_clients", arg |-> uid, done |-> TRUE,
                      out |-> [a \in listed |-> SessionStatus(store[ClientPath(uid, a)], runtime_logged_in)]]
    /\ UNCHANGED <<store, mofsl_sessions, client_capital_map, tasks, loop, del, po>>
    /\ UNCHANGED <<position_meta, fetch, cl, groups, copy_setups, clock, order_mapping>>

\* math.floor(a / b) for b # 0
FloorDiv(a, b) ==
    IF b > 0
    THEN (IF a >= 0 THEN a \div b ELSE -((-a + b - 1) \div b))
    ELSE (IF a <= 0 THEN (-a) \div (-b) ELSE -((a + (-b) - 1) \div (-b)))

Max(a, b) == IF a >= b THEN a ELSE b

\* AutoQty as it would be without the floor of 1
AutoQtyNoMinimum(capital, price) ==
    IF price = 0 THEN 1
    ELSE FloorDiv(capital[2] * 15, 100 * price)

\* auto_qty, lines 406-410: max(floor(capital * 0.15 / price), 1), and 1
\* when the division raises (price 0)
AutoQty(capital, price) ==
    IF price = 0 THEN 1
    ELSE Max(FloorDiv(capital[2] * 15, 100 * price), 1)

\* a call auto_qty(uid, client_id, price), as place_order makes it for a
\* target; the capital it looked up is cached
auto_qty(user_id, client_id, price) ==
    /\ loop = "idle"
    /\ UserAccepted(user_id)
    /\ LET uid == require_user(user_id)
           capital == LookupCapital(client_capital_map, store, uid, client_id)
       IN /\ calc' = [op |-> "auto_qty", arg |-> <<uid, client_id, price>>, done |-> TRUE,
                      out |-> AutoQty(capital, price)]
          /\ client_capital_map' = CapsAfterLookup(client_capital_map, store, uid, {client_id})
    /\ UNCHANGED <<store, mofsl_sessions, tasks, loop, del, po>>
    /\ UNCHANGED <<position_meta, fetch, cl, groups, copy_setups, clock, order_mapping>>

-----------------------------------------------------------------------------
(* Groups *)

GroupNames == { <<"g">>, <<"h">> }

\* users/<_safe(uid)>/groups/<_safe(name)>.json
GroupPath(uid, name) == <<_safe(uid), _safe(name)>>

GroupPaths == { GroupPath(k, g) : k \in UserKeys, g \in GroupNames }

\* int(x or 1)
MultiplierOf(x) == IF x = 0 THEN 1 ELSE x

\* POST /add_group
add_group(user_id, group_name, members, multiplier) ==
    /\ loop = "idle"
    /\ UserAccepted(user_id)
    /\ strip(group_name) # <<>>
    /\ members # <<>>
    /\ LET uid == require_user(user_id)
           name == strip(group_name)
           doc == [id |-> _safe(name), group_name |-> name, name |-> name,
                   clients |-> members, members |-> members,
                   multiplier |-> MultiplierOf(multiplier), updated_at |-> clock]
       IN groups' = [groups EXCEPT ![GroupPath(uid, name)] = doc]
    /\ UNCHANGED <<store, mofsl_sessions, client_capital_map, tasks, loop, del, po>>
    /\ UNCHANGED <<position_meta, fetch, cl, copy_setups, clock, order_mapping, calc>>

-----------------------------------------------------------------------------
(* Copy-trade setups *)

\* The last second of the clock.
MaxClock == 1

\* datetime.utcnow().strftime("%Y%m%d%H%M%S"): the clock to the second
\* (written here as a tally, one mark per second since the start)
Stamp(c) == [i \in 1..(c + 1) |-> "1"]

\* a second passes
Tick ==
    /\ clock < MaxClock
    /\ clock' = clock + 1
    /\ UNCHANGED <<store, mofsl_sessions, client_capital_map, tasks, loop, del, po>>
    /\ UNCHANGED <<position_meta, fetch, cl, groups, copy_setups, order_mapping, calc>>

SetupNames == { <<"s">>, <<"t">> }

\* _safe(name) + "_" + timestamp
SetupId(name, c) == _safe(name) \o <<"_">> \o Stamp(c)

SetupIds == { SetupId(n, c) : n \in SetupNames, c \in 0..MaxClock }

\* users/<_safe(uid)>/copy_setups/<_safe(setup_id)>.json
SetupPath(uid, setup_id) == <<_safe(uid), _safe(setup_id)>>

SetupPaths == { SetupPath(k, i) : k \in UserKeys, i \in SetupIds }

\* POST /save_copytrading_setup: the document is the payload with its
\* generated setup_id, enabled as a boolean and the time of the update
save_copytrading_setup(user_id, payload) ==
    /\ loop = "idle"
    /\ UserAccepted(user_id)
    /\ strip(payload.name) # <<>>
    /\ payload.master # <<>>
    /\ payload.children # <<>>
    /\ LET uid == require_user(user_id)
           setup_id == SetupId(strip(payload.name), clock)
           doc == [name |-> payload.name, master |-> payload.master, children |-> payload.children,
                   multipliers |-> payload.multipliers, setup_id |-> setup_id,
                   enabled |-> payload.enabled, updated_at |-> clock]
       IN copy_setups' = [copy_setups EXCEPT ![SetupPath(uid, setup_id)] = doc]
    /\ UNCHANGED <<store, mofsl_sessions, client_capital_map, tasks, loop, del, po>>
    /\ UNCHANGED <<position_meta, fetch, cl, groups, clock, order_mapping, calc>>

\* SetEnabled as it would be if it wrote a document without the multipliers
SetEnabledDroppingMultipliers(user_id, setup_id, flag) ==
    /\ loop = "idle"
    /\ UserAccepted(user_id)
    /\ LET path == SetupPath(require_user(user_id), setup_id)
       IN /\ path \in DOMAIN copy_setups
          /\ copy_setups[path] # EmptyDoc
          /\ copy_setups' = [copy_setups EXCEPT ![path] =
                                [copy_setups[path] EXCEPT !.enabled = flag, !.updated_at = clock,
                                                          !.multipliers = EmptyDoc]]
    /\ UNCHANGED <<store, mofsl_sessions, client_capital_map, tasks, loop, del, po>>
    /\ UNCHANGED <<position_meta, fetch, cl, groups, clock, order_mapping, calc>>

\* POST /enable_copy_setup and POST /disable_copy_setup: read the document
\* (404 without one), set the flag and the time, write it back
SetEnabled(user_id, setup_id, flag) ==
    /\ loop = "idle"
    /\ UserAccepted(user_id)
    /\ LET path == SetupPath(require_user(user_id), setup_id)
       IN /\ path \in DOMAIN copy_setups
          /\ copy_setups[path] # EmptyDoc
          /\ copy_setups' = [copy_setups EXCEPT ![path] =
                                [copy_setups[path] EXCEPT !.enabled = flag, !.updated_at = clock]]
    /\ UNCHANGED <<store, mofsl_sessions, client_capital_map, tasks, loop, del, po>>
    /\ UNCHANGED <<position_meta, fetch, cl, groups, clock, order_mapping, calc>>

enable_copy_setup(user_id, setup_id) == SetEnabled(user_id, setup_id, TRUE)

disable_copy_setup(user_id, setup_id) == SetEnabled(user_id, setup_id, FALSE)

\* POST /delete_copy_setup
delete_copy_setup(user_id, setup_id) ==
    /\ loop = "idle"
    /\ UserAccepted(user_id)
    /\ LET path == SetupPath(require_user(user_id), setup_id)
       IN /\ path \in DOMAIN copy_setups
          /\ copy_setups[path] # EmptyDoc
          /\ copy_setups' = [copy_setups EXCEPT ![path] = EmptyDoc]
    /\ UNCHANGED <<store, mofsl_sessions, client_capital_map, tasks, loop, del, po>>
    /\ UNCHANGED <<position_meta, fetch, cl, groups, clock, order_mapping, calc>>

\* load_active_copy_setups(user_id): the stored setups of the user's
\* directory whose enabled flag is set
load_active_copy_setups(user_id) ==
    { copy_setups[p] : p \in { q \in DOMAIN copy_setups :
                                  q[1] = _safe(user_id) /\ copy_setups[q] # EmptyDoc /\ copy_setups[q].enabled } }

-----------------------------------------------------------------------------
(* POST /place_order: one thread per target, joined before the response    *)

MaxTargets == 2

NoTag == <<>>

NoOrder == [pc |-> "none", uid |-> <<>>, targets |-> <<>>, w |-> <<>>, responses |-> EmptyDoc]

\* f"{tag}:{client_id}" if tag else client_id
ResultKey(tag, client_id) == IF tag # NoTag THEN tag \o <<":">> \o client_id ELSE client_id

\* int(perClientQty.get(str(client_id), 0) or 0)
OverrideQty(perQty, key) == IF Has(perQty, key) THEN perQty[key] ELSE 0

\* the capital place_order's call of auto_qty finds for a target
CapitalFor(uid, client_id) == LookupCapital(client_capital_map, store, uid, client_id)

\* lines 963-969 (explicit client list)
ClientQty(req, uid, client_id) ==
    IF req.qtySelection = "auto" THEN AutoQty(CapitalFor(uid, client_id), req.price)
    ELSE IF req.diffQty THEN OverrideQty(req.perClientQty, client_id)
    ELSE req.quantityinlot

\* lines 962-970: one target, and one thread, per listed client
ClientTargets(req, uid) ==
    [i \in 1..Len(req.clients) |->
        [tag |-> NoTag, client_id |-> req.clients[i], qty |-> ClientQty(req, uid, req.clients[i])]]

\* GroupQty as it would be if the group's multiplier were not applied
GroupQtyNoMultiplier(req, uid, group_name, group_multiplier, client_id) ==
    IF req.qtySelection = "auto" THEN AutoQty(CapitalFor(uid, client_id), req.price)
    ELSE IF req.diffQty THEN OverrideQty(req.perGroupQty, group_name)
    ELSE req.quantityinlot

\* GroupQty as it would be if the multiplier flag were looked at before the
\* differential flag
GroupQtyMultiplierFirst(req, uid, group_name, group_multiplier, client_id) ==
    IF req.qtySelection = "auto" THEN AutoQty(CapitalFor(uid, client_id), req.price)
    ELSE IF req.multiplier THEN req.quantityinlot * group_multiplier
    ELSE IF req.diffQty THEN OverrideQty(req.perGroupQty, group_name)
    ELSE req.quantityinlot

\* lines 951-959 (a member of a group)
GroupQty(req, uid, group_name, group_multiplier, client_id) ==
    IF req.qtySelection = "auto" THEN AutoQty(CapitalFor(uid, client_id), req.price)
    ELSE IF req.diffQty THEN OverrideQty(req.perGroupQty, group_name)
    ELSE IF req.multiplier THEN req.quantityinlot * group_multiplier
    ELSE req.quantityinlot

\* _store_read_json of the group's document
GroupDoc(uid, group_name) == groups[GroupPath(uid, group_name)]

\* lines 948-960: one target per member of a stored group
MemberTargets(req, uid, group_name) ==
    LET gdoc == GroupDoc(uid, group_name)
    IN [i \in 1..Len(gdoc.clients) |->
           [tag |-> group_name, client_id |-> gdoc.clients[i],
            qty |-> GroupQty(req, uid, group_name, MultiplierOf(gdoc.multiplier), gdoc.clients[i])]]

RECURSIVE GroupTargets(_, _, _)

\* GroupTargets as it would be if a group without a document ended the loop
GroupTargetsUntilMissing(req, uid, names) ==
    IF names = <<>> THEN <<>>
    ELSE IF GroupDoc(uid, Head(names)) = EmptyDoc THEN <<>>
    ELSE MemberTargets(req, uid, Head(names)) \o GroupTargets(req, uid, Tail(names))

\* lines 942-960: the listed groups in order; a group without a document
\* contributes no target
GroupTargets(req, uid, names) ==
    IF names = <<>> THEN <<>>
    ELSE (IF GroupDoc(uid, Head(names)) = EmptyDoc THEN <<>> ELSE MemberTargets(req, uid, Head(names)))
         \o GroupTargets(req, uid, Tail(names))

GroupNotFound == [status |-> "ERROR", message |-> "Group not found", clientcode |-> <<>>, quantityinlot |-> 0]

\* lines 945-947: ... but an entry of the result map under its name
GroupsNotFound(req, uid) ==
    LET missing == { req.groups[i] : i \in { j \in DOMAIN req.groups : GroupDoc(uid, req.groups[j]) = EmptyDoc } }
    IN [g \in missing |-> GroupNotFound]

Targets(req, uid) ==
    IF req.groupacc THEN GroupTargets(req, uid, req.groups) ELSE ClientTargets(req, uid)

\* the accounts whose capital the resolution looks up (and caches)
LookedUp(req, uid) ==
    IF req.qtySelection = "auto"
    THEN { Targets(req, uid)[i].client_id : i \in DOMAIN Targets(req, uid) }
    ELSE {}

SessionNotFound == [status |-> "ERROR", message |-> "Session not found", clientcode |-> <<>>, quantityinlot |-> 0]

\* what Mofsl.PlaceOrder(order_payload) answers, or the dict built from the
\* exception it raised (lines 934-937)
BrokerOutcomes == {"SUCCESS", "REJECTED", "THROWS"}

PlaceOrderResult(outcome, client_id, qty) ==
    IF outcome = "THROWS"
    THEN [status |-> "ERROR", message |-> "exception", clientcode |-> client_id, quantityinlot |-> qty]
    ELSE [status |-> outcome, message |-> "", clientcode |-> client_id, quantityinlot |-> qty]

\* PlaceOrderBegin as it would be if the symbol were not parsed before the
\* targets are resolved
PlaceOrderBeginUnparsed(user_id, req) ==
    /\ loop = "idle"
    /\ UserAccepted(user_id)
    /\ LET uid == require_user(user_id)
           targets == Targets(req, uid)
       IN /\ po' = [pc |-> "join", uid |-> uid, targets |-> targets,
                    w |-> [i \in 1..Len(targets) |-> [pc |-> "ready", n0 |-> 0, called |-> FALSE]],
                    responses |-> IF req.groupacc THEN GroupsNotFound(req, uid) ELSE EmptyDoc]
          /\ client_capital_map' = CapsAfterLookup(client_capital_map, store, uid, LookedUp(req, uid))
    /\ loop' = "place_order"
    /\ UNCHANGED <<store, mofsl_sessions, tasks, del>>
    /\ UNCHANGED ext

\* lines 868-973: the symbol is parsed (400 when refused), the request is
\* resolved into targets and every thread is started (the start loop only
\* starts threads, so it is folded in here)
PlaceOrderBegin(user_id, req) ==
    /\ loop = "idle"
    /\ UserAccepted(user_id)
    /\ ParseSymbol(req.symbol) # Rejected
    /\ LET uid == require_user(user_id)
           targets == Targets(req, uid)
       IN /\ po' = [pc |-> "join", uid |-> uid, targets |-> targets,
                    w |-> [i \in 1..Len(targets) |-> [pc |-> "ready", n0 |-> 0, called |-> FALSE]],
                    responses |-> IF req.groupacc THEN GroupsNotFound(req, uid) ELSE EmptyDoc]
          /\ client_capital_map' = CapsAfterLookup(client_capital_map, store, uid, LookedUp(req, uid))
    /\ loop' = "place_order"
    /\ UNCHANGED <<store, mofsl_sessions, tasks, del>>
    /\ UNCHANGED ext

\* lines 868-875: the symbol does not parse and the request is answered 400
\* before anything else is read or started
PlaceOrderRejected(user_id, req) ==
    /\ loop = "idle"
    /\ UserAccepted(user_id)
    /\ ParseSymbol(req.symbol) = Rejected
    /\ calc' = [op |-> "place_order", arg |-> req.symbol, done |-> TRUE, out |-> Rejected]
    /\ UNCHANGED <<store, mofsl_sessions, client_capital_map, tasks, loop, del, po>>
    /\ UNCHANGED <<position_meta, fetch, cl, groups, copy_setups, clock, order_mapping>>

Workers == IF po.pc = "join" THEN DOMAIN po.w ELSE {}

\* line 905: the thread starts iterating sessions.items(); the iterator
\* remembers the size of the dict
WorkerScanBegin(i) ==
    /\ i \in Workers
    /\ po.w[i].pc = "ready"
    /\ po' = [po EXCEPT !.w[i].pc = "scan",
                        !.w[i].n0 = Cardinality(LiveNames(_sessions_for_user(po.uid)))]
    /\ UNCHANGED <<store, mofsl_sessions, client_capital_map, tasks, loop, del>>
    /\ UNCHANGED ext

\* lines 905-916: the iteration ends.  When the bucket changed size since it
\* began, the dict iterator raises RuntimeError, which nothing in the thread
\* catches: the thread dies without an entry.  Otherwise the session is
\* found (the broker call starts) or "Session not found" is recorded.
WorkerScanEnd(i) ==
    /\ i \in Workers
    /\ po.w[i].pc = "scan"
    /\ LET bucket == _sessions_for_user(po.uid)
           t == po.targets[i]
       IN IF Cardinality(LiveNames(bucket)) # po.w[i].n0
          THEN po' = [po EXCEPT !.w[i].pc = "crashed"]
          ELSE IF NamesOf(bucket, t.client_id) = {}
          THEN po' = [po EXCEPT !.w[i].pc = "done",
                                !.responses = Set(po.responses, ResultKey(t.tag, t.client_id), SessionNotFound)]
          ELSE po' = [po EXCEPT !.w[i].pc = "call", !.w[i].called = TRUE]
    /\ UNCHANGED <<store, mofsl_sessions, client_capital_map, tasks, loop, del>>
    /\ UNCHANGED ext

\* WorkerCallReturn as it would be if the exception of the broker call were
\* not caught: the thread ends without an entry
WorkerCallReturnUncaught(i, outcome) ==
    /\ i \in Workers
    /\ po.w[i].pc = "call"
    /\ LET t == po.targets[i]
       IN IF outcome = "THROWS"
          THEN po' = [po EXCEPT !.w[i].pc = "crashed"]
          ELSE po' = [po EXCEPT !.w[i].pc = "done",
                                !.responses = Set(po.responses, ResultKey(t.tag, t.client_id),
                                                  PlaceOrderResult(outcome, t.client_id, t.qty))]
    /\ UNCHANGED <<store, mofsl_sessions, client_capital_map, tasks, loop, del>>
    /\ UNCHANGED ext

\* lines 934-939: the broker call returns or raises; the outcome is recorded
WorkerCallReturn(i, outcome) ==
    /\ i \in Workers
    /\ po.w[i].pc = "call"
    /\ LET t == po.targets[i]
       IN po' = [po EXCEPT !.w[i].pc = "done",
                           !.responses = Set(po.responses, ResultKey(t.tag, t.client_id),
                                             PlaceOrderResult(outcome, t.client_id, t.qty))]
    /\ UNCHANGED <<store, mofsl_sessions, client_capital_map, tasks, loop, del>>
    /\ UNCHANGED ext

Terminated(w) == w.pc \in {"done", "crashed"}

\* lines 974-977: every join has returned; the response carries responses
PlaceOrderReturn ==
    /\ loop = "place_order"
    /\ po.pc = "join"
    /\ \A i \in DOMAIN po.w : Terminated(po.w[i])
    /\ po' = NoOrder
    /\ loop' = "idle"
    /\ UNCHANGED <<store, mofsl_sessions, client_capital_map, tasks, del>>
    /\ UNCHANGED ext

-----------------------------------------------------------------------------
(* Position metadata cache and GET /get_positions.  get_positions is a     *)
(* plain "def" handler: every request runs on its own thread-pool thread.  *)

\* Number of get_positions requests that may be in progress at once.
MaxFetches == 2

Symbols == { <<"S">> }

NoMeta == <<>>

\* what the broker reports with a position row; a row without a token is
\* cached with symboltoken "" (line 1056)
MetaValues ==
    { [exchange |-> "NSE", symboltoken |-> <<"1", "1">>, producttype |-> "NORMAL"],
      [exchange |-> "BSE", symboltoken |-> <<"2", "2">>, producttype |-> "DELIVERY"],
      [exchange |-> "NSE", symboltoken |-> <<>>, producttype |-> "NORMAL"] }

MetaKeys == { <<k, n, y>> : k \in UserKeys, n \in DisplayNames, y \in Symbols }

Quantities == {0, 5}

\* one row of the "data" list of GetPosition
PositionRows ==
    { [symbol |-> y, buyquantity |-> b, sellquantity |-> q, meta |-> m] :
        y \in Symbols, b \in Quantities, q \in Quantities, m \in MetaValues }

\* what Mofsl.GetPosition() answers: a status other than SUCCESS, an
\* exception, or SUCCESS with its rows
PositionResponses ==
    { [status |-> st, data |-> <<>>] : st \in {"FAILED", "THROWS", "SUCCESS"} }
    \cup { [status |-> "SUCCESS", data |-> <<r>>] : r \in PositionRows }

\* quantity = buyquantity - sellquantity
NetQuantity(row) == row.buyquantity - row.sellquantity

FetchIds == 1..MaxFetches

NoFetch == [pc |-> "none", uid |-> <<>>, n0 |-> 0, todo |-> {}, rows |-> {}]

\* FetchBegin as it would be if the user's entries were not popped first
FetchBeginKeeping(f, user_id) ==
    /\ fetch[f].pc = "none"
    /\ UserAccepted(user_id)
    /\ LET uid == require_user(user_id)
           bucket == _sessions_for_user(uid)
       IN /\ position_meta' = position_meta
          /\ fetch' = [fetch EXCEPT ![f] = [pc |-> "iter", uid |-> uid,
                                            n0 |-> Cardinality(LiveNames(bucket)),
                                            todo |-> LiveNames(bucket), rows |-> {}]]
    /\ UNCHANGED <<store, mofsl_sessions, client_capital_map, tasks, loop, del, po>>
    /\ UNCHANGED <<cl, groups, copy_setups, clock, order_mapping, calc>>

\* lines 1025-1033: this user's entries are popped, then the loop over
\* _sessions_for_user(uid).items() begins (the iterator remembers the size)
FetchBegin(f, user_id) ==
    /\ fetch[f].pc = "none"
    /\ UserAccepted(user_id)
    /\ LET uid == require_user(user_id)
           bucket == _sessions_for_user(uid)
       IN /\ position_meta' = [k \in MetaKeys |-> IF k[1] = uid THEN NoMeta ELSE position_meta[k]]
          /\ fetch' = [fetch EXCEPT ![f] = [pc |-> "iter", uid |-> uid,
                                            n0 |-> Cardinality(LiveNames(bucket)),
                                            todo |-> LiveNames(bucket), rows |-> {}]]
    /\ UNCHANGED <<store, mofsl_sessions, client_capital_map, tasks, loop, del, po>>
    /\ UNCHANGED <<cl, groups, copy_setups, clock, order_mapping, calc>>

\* the entries one response adds (line 1060: only rows with quantity != 0)
MetaAfter(meta, uid, name, rows) ==
    [k \in MetaKeys |->
        IF \E i \in DOMAIN rows : NetQuantity(rows[i]) # 0 /\ k = <<uid, name, rows[i].symbol>>
        THEN (CHOOSE r \in { rows[i] : i \in DOMAIN rows } :
                  NetQuantity(r) # 0 /\ k = <<uid, name, r.symbol>>).meta
        ELSE meta[k]]

\* the bucket has the size it had when the loop began
SameSize(f) == Cardinality(LiveNames(_sessions_for_user(fetch[f].uid))) = fetch[f].n0

\* lines 1033-1067, one turn of the loop: the account's positions are asked
\* for and its rows are cached and listed.  A failed or throwing call lists
\* nothing.
FetchAccount(f, name, response) ==
    /\ fetch[f].pc = "iter"
    /\ SameSize(f)
    /\ name \in fetch[f].todo
    /\ LET uid == fetch[f].uid
           rows == response.data
       IN IF response.status # "SUCCESS"
          THEN /\ fetch' = [fetch EXCEPT ![f].todo = @ \ {name}]
               /\ UNCHANGED position_meta
          ELSE /\ position_meta' = MetaAfter(position_meta, uid, name, rows)
               /\ fetch' = [fetch EXCEPT ![f].todo = @ \ {name},
                                         ![f].rows = @ \cup { [name |-> name, symbol |-> rows[i].symbol,
                                                                quantity |-> NetQuantity(rows[i])] :
                                                              i \in DOMAIN rows }]
    /\ UNCHANGED <<store, mofsl_sessions, client_capital_map, tasks, loop, del, po>>
    /\ UNCHANGED <<cl, groups, copy_setups, clock, order_mapping, calc>>

\* line 1033: the bucket changed size since the loop began, so the dict
\* iterator raises RuntimeError outside the try and the request fails
FetchRaise(f) ==
    /\ fetch[f].pc = "iter"
    /\ ~SameSize(f)
    /\ fetch' = [fetch EXCEPT ![f] = NoFetch]
    /\ UNCHANGED <<store, mofsl_sessions, client_capital_map, tasks, loop, del, po>>
    /\ UNCHANGED <<position_meta, cl, groups, copy_setups, clock, order_mapping, calc>>

\* line 1069: the loop is exhausted and positions_data is returned
FetchReturn(f) ==
    /\ fetch[f].pc = "iter"
    /\ SameSize(f)
    /\ fetch[f].todo = {}
    /\ fetch' = [fetch EXCEPT ![f] = NoFetch]
    /\ UNCHANGED <<store, mofsl_sessions, client_capital_map, tasks, loop, del, po>>
    /\ UNCHANGED <<position_meta, cl, groups, copy_setups, clock, order_mapping, calc>>

-----------------------------------------------------------------------------
(* POST /close_position and POST /convert_position: one thread per item,   *)
(* joined before the response                                              *)

MaxItems == 2

CloseKinds == {"close_position", "convert_position"}

NoClose == [pc |-> "none", kind |-> "", uid |-> <<>>, items |-> <<>>, min_qty_map |-> EmptyDoc,
            w |-> <<>>, messages |-> <<>>]

\* lines 1130-1145 and 1193-1196 (1213-1216 and 1251-1254): the item list is
\* accepted, close_position reads the minimum quantities of the symbols
\* table into min_qty_map (empty when the read fails; convert_position has
\* none), and one thread per item is started
CloseBegin(kind, user_id, items, min_qty_map) ==
    /\ loop = "idle"
    /\ UserAccepted(user_id)
    /\ items # <<>>
    /\ cl' = [pc |-> "join", kind |-> kind, uid |-> require_user(user_id), items |-> items,
              min_qty_map |-> IF kind = "close_position" THEN min_qty_map ELSE EmptyDoc,
              w |-> [i \in 1..Len(items) |-> [pc |-> "ready", called |-> FALSE, qty |-> 0]],
              messages |-> <<>>]
    /\ loop' = kind
    /\ UNCHANGED <<store, mofsl_sessions, client_capital_map, tasks, del, po>>
    /\ UNCHANGED <<position_meta, fetch, groups, copy_setups, clock, order_mapping, calc>>

CloseWorkers == IF cl.pc = "join" THEN DOMAIN cl.w ELSE {}

\* close_one reads name and symbol as sent; convert_one strips both
ItemName(kind, item) == IF kind = "convert_position" THEN strip(item.name) ELSE item.name
ItemSymbol(kind, item) == IF kind = "convert_position" THEN strip(item.symbol) ELSE item.symbol

\* lines 1166-1167: min_qty = min_qty_map.get(symboltoken, 1);
\* lots = max(1, int(quantity // min_qty)) if min_qty > 0 else int(quantity)
Lots(quantity, min_qty_map, symboltoken) ==
    LET min_qty == IF symboltoken \in DOMAIN min_qty_map THEN min_qty_map[symboltoken] ELSE 1
    IN IF min_qty > 0 THEN Max(1, FloorDiv(quantity, min_qty)) ELSE quantity

\* the quantity sent to the broker: the lots of a close (line 1177), the
\* quantity of a conversion as it came (line 1238)
SentQty(kind, item, min_qty_map, symboltoken) ==
    IF kind = "close_position" THEN Lots(item.quantity, min_qty_map, symboltoken) ELSE item.quantity

\* position_meta.get((uid, name, symbol))
MetaGet(meta, key) == IF key \in DOMAIN meta THEN meta[key] ELSE NoMeta

\* sessions.get(name)
SessionGet(bucket, name) == IF name \in DOMAIN bucket THEN bucket[name] ELSE NoSession

\* ItemLookup as it would be if the metadata were not checked before the call
ItemLookupNoMetaCheck(i) ==
    /\ i \in CloseWorkers
    /\ cl.w[i].pc = "ready"
    /\ LET name == ItemName(cl.kind, cl.items[i])
           sess == SessionGet(_sessions_for_user(cl.uid), name)
       IN IF sess = NoSession
          THEN cl' = [cl EXCEPT !.w[i].pc = "done", !.messages = Append(@, <<"Missing data", i>>)]
          ELSE cl' = [cl EXCEPT !.w[i].pc = "call", !.w[i].called = TRUE]
    /\ UNCHANGED <<store, mofsl_sessions, client_capital_map, tasks, loop, del, po>>
    /\ UNCHANGED <<position_meta, fetch, groups, copy_setups, clock, order_mapping, calc>>

\* lines 1153-1181 (1222-1238): the thread looks the item up; without
\* metadata or without a session it records "Missing data" and returns.
\* Otherwise it builds the broker request, converting the cached token with
\* _safe_int_token outside any try: a token that does not convert raises
\* HTTPException in the thread, which ends without a message.
ItemLookup(i) ==
    /\ i \in CloseWorkers
    /\ cl.w[i].pc = "ready"
    /\ LET name == ItemName(cl.kind, cl.items[i])
           symbol == ItemSymbol(cl.kind, cl.items[i])
           meta == MetaGet(position_meta, <<cl.uid, name, symbol>>)
           sess == SessionGet(_sessions_for_user(cl.uid), name)
       IN IF meta = NoMeta \/ sess = NoSession
          THEN cl' = [cl EXCEPT !.w[i].pc = "done", !.messages = Append(@, <<"Missing data", i>>)]
          ELSE IF _safe_int_token(meta.symboltoken) = Invalid
          THEN cl' = [cl EXCEPT !.w[i].pc = "crashed"]
          ELSE cl' = [cl EXCEPT !.w[i].pc = "call", !.w[i].called = TRUE,
                                !.w[i].qty = SentQty(cl.kind, cl.items[i], cl.min_qty_map, meta.symboltoken)]
    /\ UNCHANGED <<store, mofsl_sessions, client_capital_map, tasks, loop, del, po>>
    /\ UNCHANGED <<position_meta, fetch, groups, copy_setups, clock, order_mapping, calc>>

\* what the message of a broker call says
CallMessage(kind, outcome) ==
    IF outcome = "THROWS" THEN "Error"
    ELSE IF outcome = "SUCCESS" THEN (IF kind = "convert_position" THEN "Converted" ELSE "Closed")
    ELSE "Failed"

\* lines 1183-1191 (1239-1249): Mofsl.PlaceOrder / Mofsl.PositionConversion
\* returns or raises; the message is appended
ItemCallReturn(i, outcome) ==
    /\ i \in CloseWorkers
    /\ cl.w[i].pc = "call"
    /\ cl' = [cl EXCEPT !.w[i].pc = "done",
                        !.messages = Append(@, <<CallMessage(cl.kind, outcome), i>>)]
    /\ UNCHANGED <<store, mofsl_sessions, client_capital_map, tasks, loop, del, po>>
    /\ UNCHANGED <<position_meta, fetch, groups, copy_setups, clock, order_mapping, calc>>

\* lines 1197-1200 (1255-1258): every join has returned; messages is the response
CloseReturn ==
    /\ loop \in CloseKinds
    /\ cl.pc = "join"
    /\ \A i \in DOMAIN cl.w : Terminated(cl.w[i])
    /\ cl' = NoClose
    /\ loop' = "idle"
    /\ UNCHANGED <<store, mofsl_sessions, client_capital_map, tasks, del, po>>
    /\ UNCHANGED <<position_meta, fetch, groups, copy_setups, clock, order_mapping, calc>>

-----------------------------------------------------------------------------

\* the process after start: empty store, registries and caches, no request
Idle ==
    /\ store = [p \in Paths |-> EmptyDoc]
    /\ mofsl_sessions = [k \in UserKeys |-> [n \in DisplayNames |-> NoSession]]
    /\ client_capital_map = [k \in UserKeys |-> [a \in Accts |-> NoCapital]]
    /\ tasks = [t \in TaskIds |-> NoTask]
    /\ loop = "idle"
    /\ del = NoDelete
    /\ po = NoOrder
    /\ position_meta = [k \in MetaKeys |-> NoMeta]
    /\ fetch = [f \in FetchIds |-> NoFetch]
    /\ cl = NoClose
    /\ groups = [p \in GroupPaths |-> EmptyDoc]
    /\ copy_setups = [p \in SetupPaths |-> EmptyDoc]
    /\ clock = 0
    /\ order_mapping = EmptyDoc

Init ==
    /\ Idle
    /\ calc = NoCall

MoneyInputs ==
    { "capital" :> c : c \in CapitalInputs } \cup { "base_amount" :> b : b \in BaseAmountInputs }

\* Registration requests: every payload for the plain user id, and the
\* account A with a numeric capital for the user id that _safe rewrites.
Registrations ==
    { <<u, a, n, m>> : u \in { <<"u", "1">> }, a \in Accts, n \in NameInputs, m \in MoneyInputs }
    \cup { <<u, a, n, m>> : u \in { <<"a", " ", "b">> }, a \in { <<"A">> }, n \in NameInputs,
                            m \in { "capital" :> Num(100) } }

Next ==
    \/ \E r \in Registrations : clients_add(r[1], r[2], r[3], r[4])
    \/ \E t \in TaskIds : LoginStart(t)
    \/ \E t \in TaskIds, o \in LoginOutcomes : LoginAuth(t, o)
    \/ \E t \in TaskIds, ok \in BOOLEAN : LoginRead(t, ok)
    \/ \E t \in TaskIds, ok \in BOOLEAN : LoginWrite(t, ok)
    \/ \E u \in UserIds, a \in Accts : DeleteBegin(u, a)
    \/ DeleteDrop
    \/ DeleteStore

Spec == Init /\ [][Next]_vars

-----------------------------------------------------------------------------
(* The fanout with the background logins that run beside it *)

ClientLists == UNION { [1..n -> Accts] : n \in 1..MaxTargets }

PerClientQtyInputs == { EmptyDoc, <<"A">> :> 3 }

ValidSymbol == <<"N", "|", "S", "|", "1">>

\* explicit-client requests with a manual quantity
OrderInputs ==
    { [symbol |-> ValidSymbol, groupacc |-> FALSE, groups |-> <<>>, clients |-> c,
       qtySelection |-> "manual", diffQty |-> d, multiplier |-> FALSE, quantityinlot |-> q,
       perClientQty |-> pq, perGroupQty |-> EmptyDoc, price |-> 0] :
        c \in ClientLists, d \in BOOLEAN, q \in {0, 2}, pq \in PerClientQtyInputs }

FanoutUsers == { <<"u", "1">> }

NextFanout ==
    \/ \E u \in FanoutUsers, a \in Accts, n \in NameInputs : clients_add(u, a, n, "capital" :> Num(100))
    \/ \E t \in TaskIds : LoginStart(t)
    \/ \E t \in TaskIds, o \in LoginOutcomes : LoginAuth(t, o)
    \/ \E t \in TaskIds, ok \in BOOLEAN : LoginRead(t, ok)
    \/ \E t \in TaskIds, ok \in BOOLEAN : LoginWrite(t, ok)
    \/ \E u \in FanoutUsers, req \in OrderInputs : PlaceOrderBegin(u, req)
    \/ \E i \in 1..MaxTargets : WorkerScanBegin(i)
    \/ \E i \in 1..MaxTargets : WorkerScanEnd(i)
    \/ \E i \in 1..MaxTargets, o \in BrokerOutcomes : WorkerCallReturn(i, o)
    \/ PlaceOrderReturn

SpecFanout == Init /\ [][NextFanout]_vars

-----------------------------------------------------------------------------
(* Two users whose identifiers _safe maps to the same text *)

SanitizedAlike == { <<"a", " ", "b">>, <<"a", "_", "b">> }

NextIsolation ==
    \/ \E u \in SanitizedAlike, c \in {Num(100), Num(200)} : clients_add(u, <<"A">>, NoName, "capital" :> c)
    \/ \E t \in TaskIds : LoginStart(t)
    \/ \E t \in TaskIds, o \in LoginOutcomes : LoginAuth(t, o)
    \/ \E t \in TaskIds, ok \in BOOLEAN : LoginRead(t, ok)
    \/ \E t \in TaskIds, ok \in BOOLEAN : LoginWrite(t, ok)
    \/ \E f \in FetchIds, u \in SanitizedAlike : FetchBegin(f, u)
    \/ \E f \in FetchIds, n \in DisplayNames, r \in PositionResponses : FetchAccount(f, n, r)
    \/ \E f \in FetchIds : FetchRaise(f)
    \/ \E f \in FetchIds : FetchReturn(f)

SpecIsolation == Init /\ [][NextIsolation]_vars

-----------------------------------------------------------------------------
(* Positions: logins, position fetches, closes and converts of one user *)

PositionUsers == { <<"u", "1">> }

ItemInputs == { [name |-> n, symbol |-> y, quantity |-> 5] : n \in Accts, y \in Symbols }

ItemLists == UNION { [1..n -> ItemInputs] : n \in 1..MaxItems }

\* concurrent position fetches of one user with one account
NextPositions ==
    \/ \E u \in PositionUsers : clients_add(u, <<"A">>, NoName, "capital" :> Num(100))
    \/ \E t \in TaskIds : LoginStart(t)
    \/ \E t \in TaskIds, o \in LoginOutcomes : LoginAuth(t, o)
    \/ \E t \in TaskIds, ok \in BOOLEAN : LoginRead(t, ok)
    \/ \E t \in TaskIds, ok \in BOOLEAN : LoginWrite(t, ok)
    \/ \E f \in FetchIds, u \in PositionUsers : FetchBegin(f, u)
    \/ \E f \in FetchIds, n \in DisplayNames, r \in PositionResponses : FetchAccount(f, n, r)
    \/ \E f \in FetchIds : FetchRaise(f)
    \/ \E f \in FetchIds : FetchReturn(f)

SpecPositions == Init /\ [][NextPositions]_vars

-----------------------------------------------------------------------------
(* Closes and converts of one user beside logins and a position fetch *)

\* what the broker reports during these runs: a failure, no row, or one row
CloseResponses ==
    { r \in PositionResponses :
        r.status # "THROWS" /\ \A i \in DOMAIN r.data : r.data[i].meta.exchange = "NSE" /\ r.data[i].sellquantity = 0 }

NextClose ==
    \/ \E u \in PositionUsers, a \in Accts : clients_add(u, a, NoName, "capital" :> Num(100))
    \/ \E t \in TaskIds : LoginStart(t)
    \/ \E t \in TaskIds, o \in LoginOutcomes : LoginAuth(t, o)
    \/ \E t \in TaskIds, ok \in BOOLEAN : LoginRead(t, ok)
    \/ \E t \in TaskIds, ok \in BOOLEAN : LoginWrite(t, ok)
    \/ \E u \in PositionUsers : FetchBegin(1, u)
    \/ \E n \in DisplayNames, r \in CloseResponses : FetchAccount(1, n, r)
    \/ FetchRaise(1)
    \/ FetchReturn(1)
    \/ \E k \in CloseKinds, u \in PositionUsers, items \in ItemLists : CloseBegin(k, u, items, EmptyDoc)
    \/ \E i \in 1..MaxItems : ItemLookup(i)
    \/ \E i \in 1..MaxItems, o \in BrokerOutcomes : ItemCallReturn(i, o)
    \/ CloseReturn

SpecClose == Init /\ [][NextClose]_vars

-----------------------------------------------------------------------------
(* Symbol parsing on its own *)

MaxTokenLen == 3

TokenChars == {"1", "2", "0", "5", ".", " ", "-", "x"}

TokenInputs == UNION { [1..n -> TokenChars] : n \in 0..MaxTokenLen }

\* "N|S|<token>" for every token, and the shapes with fewer or more fields
SymbolInputs ==
    { <<"N", "|", "S", "|">> \o t : t \in TokenInputs }
    \cup { <<>>, <<"N">>, <<"N", "|", "1">>, <<"N", "|", "S", "|", "1", "|", "2">>, <<"|", "|">> }

InitSymbol ==
    /\ Idle
    /\ calc \in { Call("ParseSymbol", y) : y \in SymbolInputs }

NextSymbol == ParseSymbolCall

SpecSymbol == InitSymbol /\ [][NextSymbol]_vars

-----------------------------------------------------------------------------
(* Automatic quantity beside registrations and logins *)

AutoCapitals == { Num(0), Num(100), Num(10000), NonNumeric }

Prices == { -100, 0, 1, 7, 100 }

NextAutoQty ==
    \/ \E u \in PositionUsers, c \in AutoCapitals : clients_add(u, <<"A">>, NoName, "capital" :> c)
    \/ \E t \in TaskIds : LoginStart(t)
    \/ \E t \in TaskIds, o \in LoginOutcomes : LoginAuth(t, o)
    \/ \E t \in TaskIds, ok \in BOOLEAN : LoginRead(t, ok)
    \/ \E t \in TaskIds, ok \in BOOLEAN : LoginWrite(t, ok)
    \/ \E u \in PositionUsers, a \in Accts, p \in Prices : auto_qty(u, a, p)

SpecAutoQty == Init /\ [][NextAutoQty]_vars

-----------------------------------------------------------------------------
(* Groups and the group mode of place_order *)

MemberLists == { <<<<"A">>>>, <<<<"A">>, <<"B">>>> }

GroupOrderInputs ==
    { [symbol |-> ValidSymbol, groupacc |-> TRUE, groups |-> gs, clients |-> <<>>,
       qtySelection |-> qs, diffQty |-> d, multiplier |-> m, quantityinlot |-> 2,
       perClientQty |-> EmptyDoc, perGroupQty |-> pg, price |-> 100] :
        gs \in { <<<<"g">>>>, <<<<"g">>, <<"h">>>>, <<<<"h">>, <<"g">>>> }, qs \in {"manual", "auto"}, d \in BOOLEAN,
        m \in BOOLEAN, pg \in { EmptyDoc, <<"g">> :> 4 } }

NextGroup ==
    \/ \E u \in FanoutUsers, ms \in MemberLists, m \in {0, 3} : add_group(u, <<"g">>, ms, m)
    \/ \E u \in FanoutUsers : clients_add(u, <<"A">>, NoName, "capital" :> Num(10000))
    \/ \E t \in TaskIds : LoginStart(t)
    \/ \E t \in TaskIds, o \in LoginOutcomes : LoginAuth(t, o)
    \/ \E t \in TaskIds, ok \in BOOLEAN : LoginRead(t, ok)
    \/ \E t \in TaskIds, ok \in BOOLEAN : LoginWrite(t, ok)
    \/ \E u \in FanoutUsers, req \in GroupOrderInputs : PlaceOrderBegin(u, req)
    \/ \E i \in 1..MaxTargets : WorkerScanBegin(i)
    \/ \E i \in 1..MaxTargets : WorkerScanEnd(i)
    \/ \E i \in 1..MaxTargets, o \in BrokerOutcomes : WorkerCallReturn(i, o)
    \/ PlaceOrderReturn

SpecGroup == Init /\ [][NextGroup]_vars

-----------------------------------------------------------------------------
(* Copy-trade setups on their own *)

SetupPayloads ==
    { [name |-> n, master |-> <<"A">>, children |-> <<<<"B">>>>, multipliers |-> ms, enabled |-> e] :
        n \in SetupNames, ms \in { EmptyDoc, <<"B">> :> 2 }, e \in BOOLEAN }

NextCopy ==
    \/ Tick
    \/ \E u \in FanoutUsers, pl \in SetupPayloads : save_copytrading_setup(u, pl)
    \/ \E u \in FanoutUsers, i \in SetupIds : enable_copy_setup(u, i)
    \/ \E u \in FanoutUsers, i \in SetupIds : disable_copy_setup(u, i)
    \/ \E u \in FanoutUsers, i \in SetupIds : delete_copy_setup(u, i)

SpecCopy == Init /\ [][NextCopy]_vars

-----------------------------------------------------------------------------
(* Orders on the master account of a copy-trade setup.  order_mapping and  *)
(* the processed_order_ids_* sets are declared at lines 119-122 and named  *)
(* nowhere else in the program; load_active_copy_setups (lines 463-471) has *)
(* no caller.  The only steps that follow an order on a master account are  *)
(* therefore those of place_order itself.                                   *)

MirrorPayloads ==
    { [name |-> <<"s">>, master |-> <<"A">>, children |-> <<<<"B">>>>, multipliers |-> ms, enabled |-> TRUE] :
        ms \in { EmptyDoc, <<"B">> :> 2 } }

MirrorOrderInputs ==
    { [symbol |-> ValidSymbol, groupacc |-> FALSE, groups |-> <<>>, clients |-> c,
       qtySelection |-> "manual", diffQty |-> FALSE, multiplier |-> FALSE, quantityinlot |-> 2,
       perClientQty |-> EmptyDoc, perGroupQty |-> EmptyDoc, price |-> 0] :
        c \in { <<<<"A">>>>, <<<<"A">>, <<"B">>>> } }

NextMirror ==
    \/ \E u \in FanoutUsers, a \in Accts : clients_add(u, a, NoName, "capital" :> Num(100))
    \/ \E t \in TaskIds : LoginStart(t)
    \/ \E t \in TaskIds, o \in LoginOutcomes : LoginAuth(t, o)
    \/ \E t \in TaskIds, ok \in BOOLEAN : LoginRead(t, ok)
    \/ \E t \in TaskIds, ok \in BOOLEAN : LoginWrite(t, ok)
    \/ \E u \in FanoutUsers, pl \in MirrorPayloads : save_copytrading_setup(u, pl)
    \/ \E u \in FanoutUsers, req \in MirrorOrderInputs : PlaceOrderBegin(u, req)
    \/ \E i \in 1..MaxTargets : WorkerScanBegin(i)
    \/ \E i \in 1..MaxTargets : WorkerScanEnd(i)
    \/ \E i \in 1..MaxTargets, o \in BrokerOutcomes : WorkerCallReturn(i, o)
    \/ PlaceOrderReturn

\* The event loop and every started thread keep being scheduled and every
\* broker call returns: whatever the program can still do, it does.
SpecMirror == Init /\ [][NextMirror]_vars /\ WF_vars(NextMirror)

-----------------------------------------------------------------------------
(* Requests whose symbol may not parse *)

OrderSymbols == { ValidSymbol, <<>>, <<"N", "|", "S">>, <<"N", "|", "S", "|", "x">>, <<"N", "|", "S", "|", "1", "|", "2">> }

\* explicit-client and group requests with automatic quantities
ParseOrderInputs ==
    { [symbol |-> y, groupacc |-> g, groups |-> <<<<"g">>>>, clients |-> <<<<"A">>, <<"B">>>>,
       qtySelection |-> "auto", diffQty |-> FALSE, multiplier |-> FALSE, quantityinlot |-> 2,
       perClientQty |-> EmptyDoc, perGroupQty |-> EmptyDoc, price |-> 100] :
        y \in OrderSymbols, g \in BOOLEAN }

NextParse ==
    \/ \E u \in FanoutUsers : clients_add(u, <<"A">>, NoName, "capital" :> Num(10000))
    \/ \E u \in FanoutUsers : add_group(u, <<"g">>, <<<<"A">>, <<"B">>>>, 0)
    \/ \E t \in TaskIds : LoginStart(t)
    \/ \E t \in TaskIds, o \in LoginOutcomes : LoginAuth(t, o)
    \/ \E t \in TaskIds, ok \in BOOLEAN : LoginRead(t, ok)
    \/ \E t \in TaskIds, ok \in BOOLEAN : LoginWrite(t, ok)
    \/ \E u \in FanoutUsers, req \in ParseOrderInputs : PlaceOrderBegin(u, req)
    \/ \E u \in FanoutUsers, req \in ParseOrderInputs : PlaceOrderRejected(u, req)
    \/ \E i \in 1..MaxTargets : WorkerScanBegin(i)
    \/ \E i \in 1..MaxTargets : WorkerScanEnd(i)
    \/ \E i \in 1..MaxTargets, o \in BrokerOutcomes : WorkerCallReturn(i, o)
    \/ PlaceOrderReturn

SpecParse == Init /\ [][NextParse]_vars

-----------------------------------------------------------------------------
(* Quantity policies in both modes of place_order *)

PolicyOrderInputs ==
    { [symbol |-> ValidSymbol, groupacc |-> ga, groups |-> <<<<"g">>>>, clients |-> <<<<"A">>, <<"B">>>>,
       qtySelection |-> qs, diffQty |-> d, multiplier |-> m, quantityinlot |-> 2,
       perClientQty |-> pc, perGroupQty |-> pg, price |-> 100] :
        ga \in BOOLEAN, qs \in {"manual", "auto"}, d \in BOOLEAN, m \in BOOLEAN,
        pc \in { EmptyDoc, <<"A">> :> 3 }, pg \in { EmptyDoc, <<"g">> :> 4 } }

NextPolicy ==
    \/ \E u \in FanoutUsers, ms \in MemberLists : add_group(u, <<"g">>, ms, 3)
    \/ \E u \in FanoutUsers : clients_add(u, <<"A">>, NoName, "capital" :> Num(10000))
    \/ \E t \in TaskIds : LoginStart(t)
    \/ \E t \in TaskIds, o \in LoginOutcomes : LoginAuth(t, o)
    \/ \E t \in TaskIds, ok \in BOOLEAN : LoginRead(t, ok)
    \/ \E t \in TaskIds, ok \in BOOLEAN : LoginWrite(t, ok)
    \/ \E u \in FanoutUsers, req \in PolicyOrderInputs : PlaceOrderBegin(u, req)
    \/ \E i \in 1..MaxTargets : WorkerScanBegin(i)
    \/ \E i \in 1..MaxTargets : WorkerScanEnd(i)
    \/ \E i \in 1..MaxTargets, o \in BrokerOutcomes : WorkerCallReturn(i, o)
    \/ PlaceOrderReturn

SpecPolicy == Init /\ [][NextPolicy]_vars

-----------------------------------------------------------------------------
(* Position fetches of two users, one request at a time: registrations and *)
(* logins happen only while no fetch is in progress                        *)

SoloUsers == { <<"u", "1">>, <<"a", "_", "b">> }

\* no position fetch is in progress
Quiet == \A f \in FetchIds : fetch[f].pc = "none"

NextSolo ==
    \/ Quiet /\ \E u \in SoloUsers, a \in Accts : clients_add(u, a, NoName, "capital" :> Num(100))
    \/ Quiet /\ \E t \in TaskIds : LoginStart(t)
    \/ Quiet /\ \E t \in TaskIds, o \in LoginOutcomes : LoginAuth(t, o)
    \/ Quiet /\ \E t \in TaskIds, ok \in BOOLEAN : LoginRead(t, ok)
    \/ Quiet /\ \E t \in TaskIds, ok \in BOOLEAN : LoginWrite(t, ok)
    \/ Quiet /\ \E u \in SoloUsers : FetchBegin(1, u)
    \/ \E n \in DisplayNames, r \in PositionResponses : FetchAccount(1, n, r)
    \/ FetchReturn(1)

SpecSolo == Init /\ [][NextSolo]_vars

-----------------------------------------------------------------------------
(* Capital lookups beside registrations and logins *)

NextCapital ==
    \/ \E u \in PositionUsers, m \in MoneyInputs : clients_add(u, <<"A">>, NoName, m)
    \/ \E t \in TaskIds : LoginStart(t)
    \/ \E t \in TaskIds, o \in LoginOutcomes : LoginAuth(t, o)
    \/ \E t \in TaskIds, ok \in BOOLEAN : LoginRead(t, ok)
    \/ \E t \in TaskIds, ok \in BOOLEAN : LoginWrite(t, ok)
    \/ \E u \in PositionUsers, a \in Accts : _get_client_capital(u, a)

SpecCapital == Init /\ [][NextCapital]_vars

-----------------------------------------------------------------------------
(* Client listings beside registrations and logins *)

NextListing ==
    \/ \E u \in PositionUsers, a \in Accts, n \in NameInputs : clients_add(u, a, n, "capital" :> Num(100))
    \/ \E t \in TaskIds : LoginStart(t)
    \/ \E t \in TaskIds, o \in LoginOutcomes : LoginAuth(t, o)
    \/ \E t \in TaskIds, ok \in BOOLEAN : LoginRead(t, ok)
    \/ \E t \in TaskIds, ok \in BOOLEAN : LoginWrite(t, ok)
    \/ \E u \in PositionUsers, seen \in SUBSET Accts : get_clients(u, seen)

SpecListing == Init /\ [][NextListing]_vars

-----------------------------------------------------------------------------
(* Lot counts of close orders *)

\* requested quantities of a close item
CloseQuantities == { -5, 0, 3, 5, 12 }

LotItemLists == { <<[name |-> <<"A">>, symbol |-> y, quantity |-> q]>> : y \in Symbols, q \in CloseQuantities }

\* what the symbols table says: nothing (or the read failed), or a minimum
\* quantity of 5 for token 11
MinQtyMaps == { EmptyDoc, <<"1", "1">> :> 5 }

\* the broker reports one open position with token 11, or fails
LotResponses ==
    { r \in PositionResponses :
        r.status # "THROWS" /\ \A i \in DOMAIN r.data :
            r.data[i].meta.symboltoken = <<"1", "1">> /\ r.data[i].buyquantity = 5 /\ r.data[i].sellquantity = 0 }

NextLots ==
    \/ \E u \in PositionUsers : clients_add(u, <<"A">>, NoName, "capital" :> Num(100))
    \/ \E t \in TaskIds : LoginStart(t)
    \/ \E t \in TaskIds, o \in LoginOutcomes : LoginAuth(t, o)
    \/ \E t \in TaskIds, ok \in BOOLEAN : LoginRead(t, ok)
    \/ \E t \in TaskIds, ok \in BOOLEAN : LoginWrite(t, ok)
    \/ \E u \in PositionUsers : FetchBegin(1, u)
    \/ \E n \in DisplayNames, r \in LotResponses : FetchAccount(1, n, r)
    \/ FetchRaise(1)
    \/ FetchReturn(1)
    \/ \E u \in PositionUsers, items \in LotItemLists, mq \in MinQtyMaps : CloseBegin("close_position", u, items, mq)
    \/ ItemLookup(1)
    \/ \E o \in BrokerOutcomes : ItemCallReturn(1, o)
    \/ CloseReturn

SpecLots == Init /\ [][NextLots]_vars

-----------------------------------------------------------------------------
(* Properties *)

InProgress == {"start", "auth", "read", "write"}

\* the state in which place_order builds its response: every join returned
Responding == loop = "place_order" /\ po.pc = "join" /\ \A i \in DOMAIN po.w : Terminated(po.w[i])

TargetIds == { po.targets[i].client_id : i \in DOMAIN po.targets }

DistinctTargets == Cardinality(TargetIds) = Len(po.targets)

\* C1: when a place-order request over N distinct account ids (explicit
\* client list) responds, the result map has exactly one entry per account
\* id: "Session not found" for an account whose unit found no live session,
\* and the outcome of that account's own broker call for the others.
C1_OneEntryPerAccount ==
    (Responding /\ DistinctTargets) =>
        /\ DOMAIN po.responses = { ResultKey(NoTag, c) : c \in TargetIds }
        /\ \A i \in DOMAIN po.targets :
              LET c == po.targets[i].client_id
                  r == po.responses[ResultKey(NoTag, c)]
              IN IF po.w[i].called
                 THEN r # SessionNotFound /\ r.clientcode = c
                 ELSE r = SessionNotFound

\* C2: every unit that reaches the broker's place-order operation carries a
\* positive quantity (a target resolved to zero or less is rejected locally).
C2_PositiveQuantityAtDispatch ==
    \A i \in Workers : po.w[i].called => po.targets[i].qty > 0

\* C3: place_order responds only when no unit is still running and every
\* started unit has recorded its outcome.
C3_RespondsAfterAllRecorded ==
    [][(po.pc = "join" /\ po'.pc = "none") =>
          \A i \in DOMAIN po.w :
              /\ po.w[i].pc = "done"
              /\ ResultKey(po.targets[i].tag, po.targets[i].client_id) \in DOMAIN po.responses]_vars

\* C4: when the broker login of a task succeeds, the session is installed
\* under the display name in the bucket that the handlers of the same
\* user id consult (the bucket of require_user(user id)).
C4_SessionFoundBySameUser ==
    [][\A t \in TaskIds :
          (tasks[t].pc = "auth" /\ tasks'[t].pc = "read" /\ tasks'[t].status) =>
              mofsl_sessions'[tasks[t].uid][NameOf(tasks[t].doc)] = ClientIdOf(tasks[t].doc)]_vars

\* C5: when a login whose broker call did not succeed ends, the stored
\* document is not session_active and the registry has no session under the
\* login's display name for that user.
C5_FailedLoginKeepsNoSession ==
    [][\A t \in TaskIds :
          (tasks[t].pc \in {"read", "write"} /\ tasks'[t].pc = "done" /\ ~tasks[t].status) =>
              LET uid == _safe(tasks[t].uid)
                  doc == store'[ClientPath(uid, ClientIdOf(tasks[t].doc))]
              IN /\ ~(Has(doc, "session_active") /\ doc["session_active"])
                 /\ mofsl_sessions'[uid][NameOf(tasks[t].doc)] = NoSession]_vars

\* C6: when a deletion completes, the account's document is gone, no session
\* of the user has the deleted account id, and the user's capital cache has
\* no entry for it.
C6_DeletePurgesAll ==
    [][(del.pc = "store" /\ del'.pc = "none") =>
          /\ store'[ClientPath(del.uid, del.cid)] = EmptyDoc
          /\ \A k \in {del.uid, _safe(del.uid)} :
                /\ NamesOf(mofsl_sessions'[k], del.cid) = {}
                /\ client_capital_map'[k][del.cid] = NoCapital]_vars

\* C7: login's write of session_active keeps every other field value that
\* the stored document holds when it is written (values another update put
\* there since the login was scheduled are not lost).
C7_LoginWriteKeepsOtherFields ==
    [][\A t \in TaskIds :
          (tasks[t].pc = "write" /\ tasks'[t].pc = "done") =>
              LET path == ClientPath(_safe(tasks[t].uid), ClientIdOf(tasks[t].doc))
              IN \A f \in DOMAIN store[path] \ {"session_active"} :
                    Has(store'[path], f) /\ store'[path][f] = store[path][f]]_vars

LoginsOf(k, a) == { t \in TaskIds : _safe(tasks[t].uid) = k /\ ClientIdOf(tasks[t].doc) = a }

\* C8: whenever no login of an account is in progress and one has completed,
\* the cached capital equals the capital of the stored document (stored with
\* a numeric capital).
C8_CacheAgreesWithStore ==
    \A k \in UserKeys, a \in Accts :
        LET doc == store[ClientPath(k, a)]
        IN (/\ \A t \in LoginsOf(k, a) : tasks[t].pc \notin InProgress
            /\ \E t \in LoginsOf(k, a) : tasks[t].pc = "done"
            /\ doc # EmptyDoc
            /\ IsNumeric(CapitalOf(doc)))
           => client_capital_map[k][a] = CapitalOf(doc)

\* C9: no exception leaves login_client, and a login that gives up on a
\* store failure has installed no session.
C9_LoginNeverRaises ==
    [][\A t \in TaskIds :
          /\ tasks'[t].pc # "raised"
          /\ (tasks[t].pc = "read" /\ tasks'[t].pc = "done") => ~tasks[t].status]_vars

\* the buckets being iterated: by a fanout worker, by the deletion
Iterated ==
    { po.uid : i \in { j \in Workers : po.w[j].pc = "scan" } }
    \cup (IF del.pc = "scan" THEN {del.uid} ELSE {})

\* C10: no step adds, removes or replaces an entry of a registry bucket
\* while another thread is iterating that bucket.
C10_NoMutationDuringIteration ==
    [][\A k \in Iterated : mofsl_sessions'[k] = mofsl_sessions[k]]_vars

\* the user a step of a position fetch works for
FetchUser(f) == IF fetch[f].pc = "none" THEN fetch'[f].uid ELSE fetch[f].uid

\* C11: no step of an operation performed for one user creates, overwrites
\* or removes a capital cache entry or a position metadata entry of another
\* user: a login changes only the capital bucket of its own user, a position
\* fetch only the metadata entries of its own user.
C11_CachesStayWithTheirUser ==
    [][/\ \A t \in TaskIds :
             (tasks[t].pc \in InProgress /\ tasks'[t] # tasks[t]) =>
                 \A k \in UserKeys \ {tasks[t].uid} : client_capital_map'[k] = client_capital_map[k]
       /\ \A f \in FetchIds :
             (fetch'[f] # fetch[f]) =>
                 \A k \in MetaKeys : k[1] # FetchUser(f) => position_meta'[k] = position_meta[k]]_vars

\* the cache entry an item of the request in progress refers to
ItemMeta(i) ==
    MetaGet(position_meta, <<cl.uid, ItemName(cl.kind, cl.items[i]), ItemSymbol(cl.kind, cl.items[i])>>)

MessagesOf(messages, i) == { k \in DOMAIN messages : messages[k][2] = i }

ListedQuantities(f, name, symbol) ==
    { r.quantity : r \in { x \in fetch[f].rows : x.name = name /\ x.symbol = symbol } }

\* C13: when a position fetch returns, a symbol that an account reported
\* only with net quantity 0 has no metadata entry for (user, display name,
\* symbol), and a symbol it reported with a non-zero net quantity has one;
\* the entry written for a non-zero row carries the reported exchange, token
\* and product type.
C13_ClosedPositionsNotCached ==
    [][/\ \A f \in FetchIds :
             (fetch[f].pc = "iter" /\ SameSize(f) /\ fetch'[f].pc = "none") =>
                 \A n \in DisplayNames, y \in Symbols :
                     LET qs == ListedQuantities(f, n, y)
                         entry == position_meta'[<<fetch[f].uid, n, y>>]
                     IN /\ qs = {0} => entry = NoMeta
                        /\ (qs # {} /\ 0 \notin qs) => entry # NoMeta
       /\ \A f \in FetchIds, n \in DisplayNames, r \in PositionResponses :
             (FetchAccount(f, n, r) /\ r.status = "SUCCESS") =>
                 \A i \in DOMAIN r.data :
                     NetQuantity(r.data[i]) # 0 =>
                         position_meta'[<<fetch[f].uid, n, r.data[i].symbol>>] = r.data[i].meta]_vars

\* the digits after the point
FractionPart(s) ==
    IF Dots(s) = {} THEN <<>> ELSE SubSeq(s, (CHOOSE i \in Dots(s) : TRUE) + 1, Len(s))

\* an integer numeral, optionally followed by a point and zeros (read
\* generously: surrounding blanks and a sign are let through)
IntegerNumeral(t) ==
    LET u == Unsigned(strip(t))
    IN /\ IsDecimal(u)
       /\ IntegerPart(u) # <<>>
       /\ \A i \in DOMAIN FractionPart(u) : FractionPart(u)[i] = "0"

\* C14: symbol parsing accepts exactly the strings of three pipe-delimited
\* fields E|S|T whose T is an integer numeral optionally followed by ".0",
\* and yields (E, S, int(T)); every other string (another number of fields,
\* an empty or non-numeric token, a token with a non-zero fraction) is
\* rejected.
C14_AcceptsExactlyIntegerTokens ==
    (calc.op = "ParseSymbol" /\ calc.done) =>
        LET fields == split(calc.arg)
            wellformed == Len(fields) = 3 /\ IntegerNumeral(fields[3])
        IN IF wellformed
           THEN /\ calc.out.status = 200
                /\ calc.out.exchange = fields[1]
                /\ calc.out.stock_symbol = fields[2]
                /\ _safe_int_token(fields[3]) = Token(calc.out.symboltoken)
           ELSE calc.out = Rejected

\* C15: a call of auto_qty returns an integer >= 1; for a price > 0 it is
\* max(1, floor(capital * 0.15 / price)) of the capital looked up (q is the
\* floor of x when q <= x < q + 1), and for a price of 0 or less it is 1.
C15_AutoQuantity ==
    [][\A u \in PositionUsers, a \in Accts, p \in Prices :
          auto_qty(u, a, p) =>
              LET capital == LookupCapital(client_capital_map, store, require_user(u), a)[2]
                  qty == calc'.out
              IN /\ qty \in Nat
                 /\ qty >= 1
                 /\ capital >= 0
                 /\ (p > 0 /\ 15 * capital >= 100 * p) =>
                        (qty * 100 * p <= 15 * capital /\ 15 * capital < (qty + 1) * 100 * p)
                 /\ (p > 0 /\ 15 * capital < 100 * p) => qty = 1
                 /\ p <= 0 => qty = 1
                 /\ (capital = 10000 /\ p = 100) => qty = 15]_vars

\* auto_qty has returned 15 for a capital of 10000 and a price of 100
C15_Witness ==
    /\ calc.op = "auto_qty"
    /\ calc.done
    /\ calc.arg[3] = 100
    /\ calc.out = 15
    /\ client_capital_map[calc.arg[1]][calc.arg[2]] = Num(10000)

\* the multiplier quantity policy: neither auto sizing nor differential quantity
MultiplierPolicy(req) == req.groupacc /\ req.qtySelection # "auto" /\ ~req.diffQty /\ req.multiplier

\* C16: a group-mode request under the multiplier policy creates one unit
\* for every member of every stored group it names, each with quantity =
\* base lot count x the stored multiplier of its group.
C16_GroupMultiplierQuantity ==
    [][\A u \in FanoutUsers, req \in GroupOrderInputs :
          (PlaceOrderBegin(u, req) /\ MultiplierPolicy(req)) =>
              /\ \A i \in DOMAIN po'.targets :
                    LET t == po'.targets[i]
                    IN /\ \E j \in DOMAIN req.groups : req.groups[j] = t.tag
                       /\ t.qty = req.quantityinlot * groups[GroupPath(require_user(u), t.tag)].multiplier
              /\ \A j \in DOMAIN req.groups :
                    LET gdoc == groups[GroupPath(require_user(u), req.groups[j])]
                    IN gdoc # EmptyDoc =>
                          \A k \in DOMAIN gdoc.clients :
                              \E i \in DOMAIN po'.targets :
                                  po'.targets[i].tag = req.groups[j] /\ po'.targets[i].client_id = gdoc.clients[k]]_vars

\* a group of two members with multiplier 3 has been resolved with a base
\* lot count of 2: both members are dispatched with quantity 6
C16_Witness ==
    /\ po.pc = "join"
    /\ Len(po.targets) = 2
    /\ groups[GroupPath(po.uid, <<"g">>)] # EmptyDoc
    /\ groups[GroupPath(po.uid, <<"g">>)].multiplier = 3
    /\ \A i \in DOMAIN po.targets : po.targets[i].tag = <<"g">> /\ po.targets[i].qty = 6
    /\ po.targets[1].client_id # po.targets[2].client_id

\* the fields of a setup document beside the flag and the time of the update
SetupContent(doc) == [name |-> doc.name, master |-> doc.master, children |-> doc.children,
                      multipliers |-> doc.multipliers, setup_id |-> doc.setup_id]

\* C17: disabling an enabled setup makes the next scan of the user's active
\* setups omit it and changes nothing of the stored setup except the enabled
\* flag and the time of the update; every other stored setup is unchanged.
C17_DisableOnlyClearsFlag ==
    [][\A u \in FanoutUsers, i \in SetupIds :
          LET path == SetupPath(require_user(u), i)
          IN (disable_copy_setup(u, i) /\ copy_setups[path].enabled) =>
                /\ copy_setups[path] \in load_active_copy_setups(require_user(u))
                /\ \A d \in load_active_copy_setups(require_user(u))' : d.setup_id # copy_setups[path].setup_id
                /\ copy_setups'[path] # EmptyDoc
                /\ SetupContent(copy_setups'[path]) = SetupContent(copy_setups[path])
                /\ \A q \in DOMAIN copy_setups \ {path} : copy_setups'[q] = copy_setups[q]]_vars

\* a setup with multipliers, created in second 0, is stored disabled with a
\* later update time, while another setup of the user is active
C17_Witness ==
    \E p \in DOMAIN copy_setups :
        /\ copy_setups[p] # EmptyDoc
        /\ ~copy_setups[p].enabled
        /\ copy_setups[p].setup_id = SetupId(copy_setups[p].name, 0)
        /\ copy_setups[p].updated_at = 1
        /\ copy_setups[p].multipliers # EmptyDoc
        /\ load_active_copy_setups(p[1]) # {}

\* C18: every creation of a setup yields a setup_id that no setup already
\* stored for that user has, so that a creation never overwrites a stored
\* setup document (also for two creations under one name within a second).
C18_FreshSetupId ==
    [][\A u \in FanoutUsers, pl \in SetupPayloads :
          save_copytrading_setup(u, pl) =>
              \A q \in DOMAIN copy_setups :
                  (q[1] = _safe(require_user(u)) /\ copy_setups[q] # EmptyDoc) =>
                      /\ copy_setups[q].setup_id # SetupId(strip(pl.name), clock)
                      /\ copy_setups'[q] = copy_setups[q]]_vars

\* C19: installing a session binds the login's display name to the login's
\* account id and touches no other name of the bucket and no other bucket:
\* a name that was live stays one live name with the new account id (the
\* number of live names does not grow), a name that was not live becomes one.
C19_OneSessionPerDisplayName ==
    [][\A t \in TaskIds :
          (tasks[t].pc = "auth" /\ tasks'[t].pc = "read" /\ tasks'[t].status) =>
              LET k == _safe(tasks[t].uid)
                  n == NameOf(tasks[t].doc)
              IN /\ mofsl_sessions'[k][n] = ClientIdOf(tasks[t].doc)
                 /\ \A m \in DOMAIN mofsl_sessions[k] \ {n} : mofsl_sessions'[k][m] = mofsl_sessions[k][m]
                 /\ \A j \in DOMAIN mofsl_sessions \ {k} : mofsl_sessions'[j] = mofsl_sessions[j]
                 /\ LiveNames(mofsl_sessions'[k]) = LiveNames(mofsl_sessions[k]) \cup {n}
                 /\ mofsl_sessions[k][n] # NoSession =>
                        Cardinality(LiveNames(mofsl_sessions'[k])) = Cardinality(LiveNames(mofsl_sessions[k]))]_vars

\* the login of account A succeeded under the name "n1", and that name is
\* now bound to account B alone: the second login replaced the binding
C19_Witness ==
    \E k \in UserKeys :
        /\ mofsl_sessions[k][<<"n", "1">>] = <<"B">>
        /\ NamesOf(mofsl_sessions[k], <<"A">>) = {}
        /\ \E t \in TaskIds :
              /\ tasks[t].pc \in {"read", "write", "done"}
              /\ tasks[t].status
              /\ _safe(tasks[t].uid) = k
              /\ ClientIdOf(tasks[t].doc) = <<"A">>

\* An enabled setup of the requesting user whose master account has just had
\* an order accepted by the broker.
MasterOrderAccepted ==
    /\ po.pc = "join"
    /\ \E d \in load_active_copy_setups(po.uid), k \in DOMAIN po.responses :
           po.responses[k].status = "SUCCESS" /\ po.responses[k].clientcode = d.master

\* C20: while a copy-trade setup is enabled, an order on its master account
\* leads to child orders whose ids are recorded in order_mapping under the
\* setup (stated in its weakest form: something is eventually recorded).
C20_MasterOrderIsMirrored == MasterOrderAccepted ~> (order_mapping # EmptyDoc)

\* C21: when a close or convert request responds, its message list holds
\* exactly one outcome for every submitted item, whatever became of the item.
C21_OneOutcomePerItem ==
    [][(cl.pc = "join" /\ cl'.pc = "none") =>
           /\ Len(cl.messages) = Len(cl.items)
           /\ \A i \in DOMAIN cl.items : Cardinality(MessagesOf(cl.messages, i)) = 1]_vars

\* C22: a place-order thread whose account has no live session of the
\* requesting user records "Session not found" under its key and ends; it
\* makes no broker call, and no other thread makes one on its behalf.
C22_NoSessionNoBrokerCall ==
    [][\A i \in Workers :
          (/\ po.w[i].pc = "scan"
           /\ po'.pc = "join"
           /\ po'.w[i].pc # "scan"
           /\ NamesOf(_sessions_for_user(po.uid), po.targets[i].client_id) = {}) =>
              LET key == ResultKey(po.targets[i].tag, po.targets[i].client_id)
              IN /\ po'.w[i].pc = "done"
                 /\ ~po'.w[i].called
                 /\ key \in DOMAIN po'.responses
                 /\ po'.responses[key] = SessionNotFound
                 /\ \A j \in Workers \ {i} : po'.w[j] = po.w[j]]_vars

\* the result key of the i-th target of the request in progress
KeyOf(i) == ResultKey(po.targets[i].tag, po.targets[i].client_id)

C24_UnparsedSymbolRejectedFirst ==
    [][\A u \in FanoutUsers, req \in ParseOrderInputs :
          /\ PlaceOrderRejected(u, req) =>
                 /\ calc'.out = Rejected
                 /\ po' = po /\ po'.pc = "none"
                 /\ loop' = "idle"
                 /\ client_capital_map' = client_capital_map
                 /\ store' = store /\ groups' = groups /\ mofsl_sessions' = mofsl_sessions
          /\ PlaceOrderBegin(u, req) => ParseSymbol(req.symbol) # Rejected]_vars

\* a request with an unparsable symbol has been rejected while the account
\* it names had a live session: no request is in progress
C24_Witness ==
    /\ calc.op = "place_order"
    /\ calc.out = Rejected
    /\ ParseSymbol(calc.arg) = Rejected
    /\ po = NoOrder
    /\ loop = "idle"
    /\ \E k \in UserKeys : NamesOf(mofsl_sessions[k], <<"A">>) # {}

\* the targets of the request in progress that carry the tag of one group
TaggedTargets(targets, group_name) == SelectSeq(targets, LAMBDA t : t.tag = group_name)

\* C25: when a group request is resolved, every named group without a
\* document has the "Group not found" entry under its name, and every named
\* group with a document has one started thread per member, in member order,
\* wherever the missing group stands in the list.
C25_MissingGroupDoesNotAbort ==
    [][\A u \in FanoutUsers, req \in GroupOrderInputs :
          PlaceOrderBegin(u, req) =>
              \A n \in DOMAIN req.groups :
                  LET g == req.groups[n]
                      gdoc == groups[GroupPath(require_user(u), g)]
                  IN IF gdoc = EmptyDoc
                     THEN /\ g \in DOMAIN po'.responses
                          /\ po'.responses[g] = GroupNotFound
                          /\ TaggedTargets(po'.targets, g) = <<>>
                     ELSE /\ g \notin DOMAIN po'.responses
                          /\ Len(TaggedTargets(po'.targets, g)) = Len(gdoc.clients)
                          /\ \A i \in DOMAIN gdoc.clients :
                                 TaggedTargets(po'.targets, g)[i].client_id = gdoc.clients[i]
                          /\ DOMAIN po'.w = DOMAIN po'.targets
                          /\ \A i \in DOMAIN po'.w : po'.w[i].pc = "ready"]_vars

\* a request naming a stored group of two members and a group without a
\* document: the error entry is there and both members have their thread
C25_Witness ==
    /\ po.pc = "join"
    /\ <<"h">> \in DOMAIN po.responses
    /\ po.responses[<<"h">>] = GroupNotFound
    /\ Len(po.targets) = 2
    /\ \A i \in DOMAIN po.targets : po.targets[i].tag = <<"g">>
    /\ DOMAIN po.w = DOMAIN po.targets

\* the override of a request for a key, 0 when it has none
OverrideOrZero(overrides, key) == IF key \in DOMAIN overrides THEN overrides[key] ELSE 0

\* the automatic quantity of an account as the request finds its capital
AutoFor(uid, client_id, price) ==
    AutoQty(LookupCapital(client_capital_map, store, uid, client_id), price)

\* C26: the quantity of every target follows a fixed precedence.  Group
\* mode: automatic sizing; else, with the differential flag, the override
\* of the group (0 without one) whatever the multiplier flag says; else,
\* with the multiplier flag, base x the group's multiplier; else the base.
\* Explicit clients: automatic sizing; else, with the differential flag, the
\* override of the client (0 without one); else the base, whatever the
\* multiplier flag says.
C26_QuantityPrecedence ==
    [][\A u \in FanoutUsers, req \in PolicyOrderInputs :
          PlaceOrderBegin(u, req) =>
              \A i \in DOMAIN po'.targets :
                  LET t == po'.targets[i]
                      uid == require_user(u)
                  IN IF req.groupacc
                     THEN /\ t.tag # NoTag
                          /\ req.qtySelection = "auto" => t.qty = AutoFor(uid, t.client_id, req.price)
                          /\ (req.qtySelection # "auto" /\ req.diffQty) =>
                                 t.qty = OverrideOrZero(req.perGroupQty, t.tag)
                          /\ (req.qtySelection # "auto" /\ ~req.diffQty /\ req.multiplier) =>
                                 t.qty = req.quantityinlot * groups[GroupPath(uid, t.tag)].multiplier
                          /\ (req.qtySelection # "auto" /\ ~req.diffQty /\ ~req.multiplier) =>
                                 t.qty = req.quantityinlot
                     ELSE /\ t.tag = NoTag
                          /\ req.qtySelection = "auto" => t.qty = AutoFor(uid, t.client_id, req.price)
                          /\ (req.qtySelection # "auto" /\ req.diffQty) =>
                                 t.qty = OverrideOrZero(req.perClientQty, t.client_id)
                          /\ (req.qtySelection # "auto" /\ ~req.diffQty) =>
                                 t.qty = req.quantityinlot]_vars

\* a group with multiplier 3 was resolved under the differential policy with
\* base 2 and override 4: the member's quantity is 4, neither 2 nor 6
C26_Witness ==
    /\ po.pc = "join"
    /\ po.targets # <<>>
    /\ groups[GroupPath(po.uid, <<"g">>)] # EmptyDoc
    /\ groups[GroupPath(po.uid, <<"g">>)].multiplier = 3
    /\ \A i \in DOMAIN po.targets : po.targets[i].tag = <<"g">> /\ po.targets[i].qty = 4

\* another target of the request in progress has the same result key
Collides(i) == \E j \in DOMAIN po.targets \ {i} : KeyOf(j) = KeyOf(i)

\* C27: when targets of a request share one result key, every one of them
\* whose account has a live session makes its broker call, and when the
\* request responds the key has an entry that is the outcome of one of
\* those calls.
C27_CollidingTargetsAllCalled ==
    [][/\ \A i \in Workers :
             (/\ Collides(i)
              /\ po.w[i].pc = "scan"
              /\ po'.pc = "join"
              /\ po'.w[i].pc # "scan"
              /\ NamesOf(_sessions_for_user(po.uid), po.targets[i].client_id) # {}) =>
                 po'.w[i].pc = "call"
       /\ (po.pc = "join" /\ po'.pc = "none") =>
             \A i \in DOMAIN po.targets :
                 (Collides(i) /\ po.w[i].called) =>
                     /\ KeyOf(i) \in DOMAIN po.responses
                     /\ po.responses[KeyOf(i)] # SessionNotFound => po.responses[KeyOf(i)].clientcode = po.targets[i].client_id]_vars

\* the (display name, symbol) pairs a fetch listed with a non-zero quantity
ReportedOpen(f) == { <<r.name, r.symbol>> : r \in { x \in fetch[f].rows : x.quantity # 0 } }

\* the (display name, symbol) pairs a user has cache entries for
CachedPairs(uid) ==
    { <<k[2], k[3]>> : k \in { q \in MetaKeys : q[1] = uid /\ position_meta[q] # NoMeta } }

\* C28: when a position fetch that ran alone returns, the user's cache
\* entries are exactly the (display name, symbol) pairs that successful
\* responses of this fetch reported with a non-zero net quantity, and no
\* step of the fetch changes an entry of another user.
C28_FetchReplacesUsersEntries ==
    [][/\ (fetch[1].pc = "iter" /\ fetch'[1].pc = "none") =>
             CachedPairs(fetch[1].uid) = ReportedOpen(1)
       /\ (fetch'[1].pc = "iter") =>
             \A k \in MetaKeys : k[1] # fetch'[1].uid => position_meta'[k] = position_meta[k]]_vars

\* a fetch of one user is about to return after its account's call failed:
\* the account is logged in, the user has no entry, and another user still
\* has one
C28_Witness ==
    /\ fetch[1].pc = "iter"
    /\ fetch[1].todo = {}
    /\ fetch[1].n0 > 0
    /\ fetch[1].rows = {}
    /\ CachedPairs(fetch[1].uid) = {}
    /\ \E k \in MetaKeys : k[1] # fetch[1].uid /\ position_meta[k] # NoMeta

\* what a lookup that misses the cache must return for a stored document:
\* the primary field when it has a value, else the alternate field, and 0
\* for no document or a value that is not a number
MissCapital(doc) ==
    LET primary == IF "capital" \in DOMAIN doc THEN doc["capital"] ELSE Num(0)
        alternate == IF "base_amount" \in DOMAIN doc THEN doc["base_amount"] ELSE Num(0)
        chosen == IF primary # Num(0) THEN primary ELSE alternate
    IN IF chosen[1] = "num" THEN chosen ELSE Num(0)

\* a login caches the capital of its document in this step
LoginCaches == \E t \in TaskIds : tasks[t].pc = "start" /\ tasks'[t].pc # "start"

\* C29: a capital lookup that finds a cache entry returns it, whatever the
\* store holds, and leaves the cache as it is; one that finds none returns
\* the capital of the stored document (primary field, else the alternate, 0
\* for no document or an unreadable value) and caches it; and a cached
\* value changes in no step but the caching step of a login.
C29_CapitalLookup ==
    [][/\ \A u \in PositionUsers, a \in Accts :
             _get_client_capital(u, a) =>
                 LET uid == require_user(u)
                     cached == client_capital_map[uid][a]
                 IN /\ cached # NoCapital =>
                           (calc'.out = cached /\ client_capital_map' = client_capital_map)
                    /\ cached = NoCapital =>
                           /\ calc'.out = MissCapital(store[ClientPath(uid, a)])
                           /\ client_capital_map'[uid][a] = calc'.out
                           /\ \A k \in UserKeys, b \in Accts :
                                  <<k, b>> # <<uid, a>> => client_capital_map'[k][b] = client_capital_map[k][b]
       /\ ~LoginCaches =>
             \A k \in UserKeys, b \in Accts :
                 client_capital_map[k][b] # NoCapital => client_capital_map'[k][b] = client_capital_map[k][b]]_vars

\* a lookup has returned the cached 100 although the stored document now
\* says 200
C29_Witness ==
    /\ calc.op = "_get_client_capital"
    /\ calc.out = Num(100)
    /\ client_capital_map[calc.arg[1]][calc.arg[2]] = Num(100)
    /\ store[ClientPath(calc.arg[1], calc.arg[2])] # EmptyDoc
    /\ CapitalOf(store[ClientPath(calc.arg[1], calc.arg[2])]) = Num(200)

\* C30: the lot count sent with a close order is max(1, floor(quantity /
\* min_lot)) when the symbols table has a minimum quantity for the cached
\* token (q is the floor of x when q <= x < q + 1), and the requested
\* quantity as it came when it has none.
C30_CloseLots ==
    [][\A i \in CloseWorkers :
          (cl.kind = "close_position" /\ cl.w[i].pc = "ready" /\ cl'.pc = "join" /\ cl'.w[i].pc = "call") =>
              LET quantity == cl.items[i].quantity
                  token == ItemMeta(i).symboltoken
                  lots == cl'.w[i].qty
              IN IF token \in DOMAIN cl.min_qty_map
                 THEN LET min_lot == cl.min_qty_map[token]
                      IN /\ lots >= 1
                         /\ quantity >= min_lot => (lots * min_lot <= quantity /\ quantity < (lots + 1) * min_lot)
                         /\ quantity < min_lot => lots = 1
                 ELSE lots = quantity]_vars

\* C31: a setup document that appears in the store is disabled; the flag of
\* a stored setup changes only in a step of enable or disable, to the value
\* that toggle names; and a toggle leaves the document stored.
C31_SetupStateMachine ==
    [][\A p \in SetupPaths :
          /\ (copy_setups[p] = EmptyDoc /\ copy_setups'[p] # EmptyDoc) => ~copy_setups'[p].enabled
          /\ (copy_setups[p] # EmptyDoc /\ copy_setups'[p] # EmptyDoc
                  /\ copy_setups'[p].enabled # copy_setups[p].enabled) =>
                 \E u \in FanoutUsers, i \in SetupIds :
                     /\ SetupPath(require_user(u), i) = p
                     /\ \/ enable_copy_setup(u, i) /\ copy_setups'[p].enabled
                        \/ disable_copy_setup(u, i) /\ ~copy_setups'[p].enabled
          /\ \A u \in FanoutUsers, i \in SetupIds :
                 (enable_copy_setup(u, i) \/ disable_copy_setup(u, i)) =>
                     copy_setups'[SetupPath(require_user(u), i)] # EmptyDoc]_vars

\* a registration is accepted in this step
Registers == \E t \in TaskIds : tasks[t].pc = "none" /\ tasks'[t].pc = "start"

\* the account has no stored document and no session of the user, and no
\* deletion is in progress
Gone(k, a) ==
    /\ store[ClientPath(k, a)] = EmptyDoc
    /\ NamesOf(mofsl_sessions[k], a) = {}
    /\ del.pc = "none"

\* C32: an account that has neither a stored document nor a session (it was
\* never registered, or its deletion has completed) gets a document or a
\* session again only by a registration; a background login that is still
\* running brings neither back.
C32_DeletedStaysDeleted ==
    [][\A k \in UserKeys, a \in Accts :
          (Gone(k, a) /\ ~Registers) =>
              /\ store'[ClientPath(k, a)] = EmptyDoc
              /\ NamesOf(mofsl_sessions'[k], a) = {}]_vars

\* C33: a registration by one user leaves the stored document of every
\* account registered by a different user as it was, and a login installs a
\* session only in the bucket that the handlers of its own user consult.
C33_UsersShareNothing ==
    [][/\ \A u \in UserIds, a \in Accts, c \in {Num(100), Num(200)} :
             clients_add(u, a, NoName, "capital" :> c) =>
                 \A t \in TaskIds :
                     (tasks[t].pc # "none" /\ tasks[t].uid # require_user(u)) =>
                         store'[ClientPath(tasks[t].uid, ClientIdOf(tasks[t].doc))]
                             = store[ClientPath(tasks[t].uid, ClientIdOf(tasks[t].doc))]
       /\ \A t \in TaskIds :
             (tasks[t].pc = "auth" /\ tasks'[t].pc = "read") =>
                 \A k \in UserKeys \ {tasks[t].uid} : mofsl_sessions'[k] = mofsl_sessions[k]]_vars


\* the session an item of the request in progress would use
ItemSession(i) == SessionGet(_sessions_for_user(cl.uid), ItemName(cl.kind, cl.items[i]))

\* C34: while an item of a close or convert request still has its lookup to
\* do, its metadata entry is cached and its session is live, no step of
\* another operation (a position fetch of the same user among them) takes the
\* entry away, so the item's lookup finds it.
C34_FetchKeepsEntryOfPendingItem ==
    [][\A i \in 1..MaxItems :
          (/\ i \in CloseWorkers
           /\ cl.w[i].pc = "ready"
           /\ cl' = cl
           /\ ItemMeta(i) # NoMeta
           /\ ItemSession(i) # NoSession) =>
              MetaGet(position_meta', <<cl.uid, ItemName(cl.kind, cl.items[i]), ItemSymbol(cl.kind, cl.items[i])>>) # NoMeta]_vars


\* C35: when the broker login of one account succeeds, every other account
\* that had a live session in the user's bucket still has one.
C35_LoginKeepsOtherAccounts ==
    [][\A t \in TaskIds :
          (tasks[t].pc = "auth" /\ tasks'[t].pc = "read" /\ tasks'[t].status) =>
              \A a \in Accts \ {ClientIdOf(tasks[t].doc)} :
                  NamesOf(mofsl_sessions[_safe(tasks[t].uid)], a) # {} =>
                      NamesOf(mofsl_sessions'[_safe(tasks[t].uid)], a) # {}]_vars

\* C36: no two live entries of a bucket hold the same account id.
C36_OneEntryPerAccount ==
    \A k \in UserKeys, a \in Accts : Cardinality(NamesOf(mofsl_sessions[k], a)) <= 1


\* C37: a client listing reports an account as "Logged in" only when the
\* user's bucket holds a live session of that account id at that moment.
C37_ListedLoggedInHasSession ==
    [][\A u \in PositionUsers, seen \in SUBSET Accts :
          get_clients(u, seen) =>
              \A a \in DOMAIN calc'.out :
                  calc'.out[a] = "Logged in" =>
                      NamesOf(_sessions_for_user(require_user(u)), ClientIdOf(store[ClientPath(require_user(u), a)])) # {}]_vars


\* C38: while a place-order request waits to join a unit whose broker call
\* has not returned, a registration (which needs no broker call of that
\* request, and for which a background task is free) can be accepted.
C38_HungCallDelaysOnlyItsRequest ==
    (/\ po.pc = "join"
     /\ \E i \in DOMAIN po.w : po.w[i].pc = "call"
     /\ FreeTask # 0) =>
        ENABLED clients_add(<<"u", "1">>, <<"A">>, NoName, "capital" :> Num(100))


====
